---- MODULE Spec2Model ----
(***************************************************************************)
(* A model of the ourtransform pipeline engine (ourtransform/framework.py):*)
(* Notice, Element, Transformer, Mutable, Verifier, Chain / AllChain /     *)
(* AnyChain and Selector.  Python objects live in a heap (reference ->     *)
(* record); every `do` is an operator from a heap and a reference to the   *)
(* heap it leaves, the reference it returns, the exception it raises and   *)
(* the log of the user functions it called.  f-strings are sequences of    *)
(* string tokens, concatenated the way the code formats them.              *)
(***************************************************************************)
EXTENDS Integers, Sequences, FiniteSets, TLC

(***************************************************************************)
(* The fields of the records of the model, in the order every record lists *)
(* them.                                                                   *)
(***************************************************************************)
FieldDoc ==
    [act |-> "user function: what a call does",
     ann |-> "user function: return annotation",
     args |-> "concatenate: the arguments, as the call leaves them",
     buckets |-> "run_async: the batches distribute returned",
     callable |-> "tag: whether it is a function",
     chain |-> "select: the chain found",
     chains |-> "registry: tag -> chain",
     cls |-> "object: runtime class",
     done |-> "position: the elements the stage has returned so far",
     e |-> "user function: the live element after the call",
     elements |-> "result: the elements returned; call: those handed over",
     ev |-> "call: the event it is applied to",
     events |-> "event: wrapped or ordered events, chains of a selector",
     exc |-> "outcome: the exception raised",
     fn |-> "event: its function; log entry: the function called",
     found |-> "select: whether a chain was found",
     given |-> "position: the elements handed to the stage",
     h |-> "outcome: the heap left",
     i |-> "registry: the next chain to register; position: next element",
     id |-> "element, chain, selector: caller-assigned id",
     input |-> "element: input",
     k |-> "event: its class",
     kind |-> "exception: its class",
     level |-> "notice: level",
     log |-> "outcome: the user functions called, in order",
     logged |-> "run_async: whether logger.error was called",
     logger |-> "selector, process: whether a logger was supplied",
     meta |-> "call, log entry: the meta passed",
     msg |-> "notice, exception: message",
     n |-> "run_async: cpu_count()",
     name |-> "user function: name",
     nargs |-> "user function: parameter count",
     notices |-> "element: notices",
     op |-> "call: the operation",
     out |-> "user function: the object returned",
     output |-> "element: output",
     pool |-> "run_async: the state of the call after get",
     pre |-> "call: the heap before it",
     process |-> "call: the process run",
     res |-> "call: its outcome",
     result |-> "outcome: the Result returned",
     ret |-> "outcome: the reference returned; user function: what it returns",
     runs |-> "outcome: the calls of _sub_run, in order",
     same |-> "returned object: whether it is the live element",
     selector |-> "process: its selector",
     stage |-> "position: the stage being run",
     state |-> "worker: running, done or failed",
     sub_process |-> "process: the processes appended to it",
     tag |-> "element, chain: tag",
     ty |-> "value: runtime class",
     v |-> "value: payload; tag: constant or function",
     val |-> "user function: constant; read: the value read",
     warnings |-> "registry: warnings logged",
     workers |-> "run_async: one worker per batch"]

VARIABLES heap, last, nops

vars == <<heap, last, nops>>

(***************************************************************************)
(* Bounds of the model.                                                    *)
(***************************************************************************)
\* events in one chain
MaxSteps == 3
\* operations applied in one behaviour
MaxOps == 2
\* chains handed to one Selector
MaxChains == 2

(***************************************************************************)
(* Runtime classes and values.  A value is its class and a payload; the    *)
(* payload stands for the data a dict or list holds.                       *)
(***************************************************************************)
None == [ty |-> "NoneType", v |-> 0]
Dict(n) == [ty |-> "dict", v |-> n]
List(n) == [ty |-> "list", v |-> n]

\* Python's issubclass(a, b) over the classes of the model.
IsSubclass(a, b) ==
    \/ a = b
    \/ b = "object"
    \/ (a = "MyElement" /\ b = "Element")

\* Return annotations that are no class: typing.List, List[dict], [dict].
NonClassAnnotations == {"typing.List", "[dict]"}

(***************************************************************************)
(* Exceptions: a class and str(e) as a token sequence.                     *)
(***************************************************************************)
NoExc == [kind |-> "none", msg |-> <<>>]
Exc(kind, msg) == [kind |-> kind, msg |-> msg]
Raised(e) == e.kind # "none"

\* isinstance(e, Exception subclass `cls`) for the `except cls` clauses.
IsInstance(e, cls) ==
    /\ Raised(e)
    /\ (cls = "Exception" \/ e.kind = cls)

(***************************************************************************)
(* Level and Notice.  __hash__ is hash(f"{msg}{level}") and __eq__ compares*)
(* hashes, so a notice set holds at most one notice per formatted string.  *)
(***************************************************************************)
Levels == {"INFO", "WARNING", "ERROR"}

Notice(msg, level) == [level |-> level, msg |-> msg]

\* f"{level}" of a member of Level, in the characters of its value.
LevelText(level) ==
    CASE level = "INFO" -> <<"Level.", "I", "N", "F", "O">>
      [] level = "WARNING" -> <<"Level.", "W", "A", "R", "N", "I", "N", "G">>
      [] level = "ERROR" -> <<"Level.", "E", "R", "R", "O", "R">>
      [] OTHER -> <<level>>

\* A variant of NoticeHash that hashes the message only.
NoticeHash_MessageOnly(n) == n.msg

\* Notice.__hash__: the hash of f"{msg}{level}", the message being a
\* sequence of pieces of text; hash is taken to tell any two texts met
\* apart.
NoticeHash(n) == n.msg \o LevelText(n.level)

NoticeEq(n, m) == NoticeHash(n) = NoticeHash(m)

\* A variant of NoticesAdd that keeps the notice added only.
NoticesAdd_Replaces(S, n) == {n}

\* set.add: an element equal to one already present is not added.
NoticesAdd(S, n) == IF \E m \in S : NoticeEq(m, n) THEN S ELSE S \cup {n}

(***************************************************************************)
(* Element.  The tag is a constant or a one-argument function.             *)
(***************************************************************************)
NoTag == "<None>"

StaticTag(t) == [callable |-> FALSE, v |-> t]
DerivedTag(f) == [callable |-> TRUE, v |-> f]

NewElement(cls, input, tag, id) ==
    [cls |-> cls, id |-> id, input |-> input, notices |-> {},
     output |-> None, tag |-> tag]

\* Element.has_any
HasAny(e, levels) == \E n \in e.notices : n.level \in levels

(***************************************************************************)
(* Tag functions a caller can supply.                                      *)
(*   byInput : lambda x: x.input['tag_attr'] (raises unless input is a     *)
(*             dict; payload 0 holds tag "a", payload 1 holds None)        *)
(*   broken  : a function that always raises                               *)
(***************************************************************************)
TagFns == {"byInput", "broken"}

TagFnApply(f, e) ==
    CASE f = "byInput" ->
            IF e.input.ty = "dict"
            THEN [exc |-> NoExc, val |-> IF e.input.v = 0 THEN "a" ELSE NoTag]
            ELSE [exc |-> Exc("TypeError", <<e.input.ty, "has no key">>),
                  val |-> NoTag]
      [] OTHER ->
            [exc |-> Exc("TypeError", <<"tag function failed">>), val |-> NoTag]

TagNotice_Silent(e, err) == e.notices

\* The notice Element.tag records when the tag function raises.
TagNotice(e, err) ==
    NoticesAdd(e.notices, Notice(err.msg, "ERROR"))

\* Element.tag (property): the heap after the read, the value, the exception.
ElementTag(h, r) ==
    LET e == h[r] IN
    IF e.tag.callable
    THEN LET res == TagFnApply(e.tag.v, e) IN
         IF Raised(res.exc)
         THEN LET err == Exc("Exception",
                             <<"Tag of element", e.cls,
                               "could not be resolved:">> \o res.exc.msg)
              IN [exc |-> err,
                  h |-> [h EXCEPT ![r].notices = TagNotice(e, err)],
                  val |-> NoTag]
         ELSE [exc |-> NoExc, h |-> h, val |-> res.val]
    ELSE [exc |-> NoExc, h |-> h, val |-> e.tag.v]

(***************************************************************************)
(* User functions.  A function is described by what the engine can see of  *)
(* it: its parameter count, its return annotation and what a call does.    *)
(*   act = "input"     (Transformer) return the input                      *)
(*   act = "prev"      (Transformer) return the previous output            *)
(*   act = "const"     (Transformer) return val                            *)
(*   act = "none"      (Mutable) leave the element alone                   *)
(*   act = "setInput"  (Mutable) element.input = val                       *)
(*   act = "setOutput" (Mutable) element.output = val                      *)
(*   act = "raise"     raise Exception(name)                               *)
(*   act = "raiseVRE"  raise VerifierRaisedException(name)                 *)
(*   ret = "self" | "other" | "list"  (Mutable) what the function returns: *)
(*         the element it was given, another Element holding the input and *)
(*         output the element had at the call, or a list.                  *)
(***************************************************************************)
Fn(name, nargs, ann, act, val, ret) ==
    [act |-> act, ann |-> ann, name |-> name, nargs |-> nargs, ret |-> ret,
     val |-> val]

NoFn == Fn("", 0, "_empty", "none", None, "self")

FnError(fn) ==
    IF fn.act = "raiseVRE"
    THEN Exc("VerifierRaisedException", <<fn.name>>)
    ELSE Exc("Exception", <<fn.name>>)

LogEntry(fn, meta) == [fn |-> fn.name, meta |-> meta]

\* fn(element.input, element.output, meta) of a Transformer.
TFnApply(fn, input, output, meta) ==
    CASE fn.act \in {"raise", "raiseVRE"} -> [exc |-> FnError(fn), val |-> None]
      [] fn.act = "input" -> [exc |-> NoExc, val |-> input]
      [] fn.act = "prev" -> [exc |-> NoExc, val |-> output]
      [] OTHER -> [exc |-> NoExc, val |-> fn.val]

\* fn(element, meta) of a Mutable: the live element after the call, the
\* object returned (its class, input, output, and whether it is the live
\* element), the exception.
MFnApply(fn, e, meta) ==
    LET live == CASE fn.act = "setInput" -> [e EXCEPT !.input = fn.val]
                  [] fn.act = "setOutput" -> [e EXCEPT !.output = fn.val]
                  [] OTHER -> e
        out == CASE fn.ret = "self" ->
                      [cls |-> live.cls, input |-> live.input,
                       output |-> live.output, same |-> TRUE]
                 [] fn.ret = "other" ->
                      [cls |-> e.cls, input |-> e.input,
                       output |-> e.output, same |-> FALSE]
                 [] OTHER ->
                      [cls |-> "list", input |-> None,
                       output |-> None, same |-> FALSE]
    IN IF fn.act \in {"raise", "raiseVRE"}
       THEN [e |-> e, exc |-> FnError(fn), out |-> out]
       ELSE [e |-> live, exc |-> NoExc, out |-> out]

(***************************************************************************)
(* Changeable: the checks shared by Transformer and Mutable.               *)
(***************************************************************************)
\* A variant of VerifyFnOutput that accepts a declared type that is a
\* superclass of the runtime type.
VerifyFnOutput_Supertype(ann, actual) ==
    IF ann \in NonClassAnnotations
    THEN Exc("Exception", <<"Could not type check output:",
                            "issubclass() arg 1 must be a class">>)
    ELSE IF ~IsSubclass(actual, ann)
    THEN Exc("Exception",
             <<"Could not type check output:", "Expected output type was",
               ann, "but got", actual>>)
    ELSE NoExc

\* A variant of VerifyFnOutput that accepts the runtime type only.
VerifyFnOutput_Exact(ann, actual) ==
    IF ann \in NonClassAnnotations
    THEN Exc("Exception", <<"Could not type check output:",
                            "issubclass() arg 1 must be a class">>)
    ELSE IF ann # actual
    THEN Exc("Exception",
             <<"Could not type check output:", "Expected output type was",
               ann, "but got", actual>>)
    ELSE NoExc

\* Changeable.__verify_fn_output__
VerifyFnOutput(ann, actual) ==
    IF ann \in NonClassAnnotations
    THEN Exc("Exception", <<"Could not type check output:",
                            "issubclass() arg 1 must be a class">>)
    ELSE IF ~IsSubclass(ann, actual)
    THEN Exc("Exception",
             <<"Could not type check output:", "Expected output type was",
               ann, "but got", actual>>)
    ELSE NoExc

\* Changeable.__verify_type__
VerifyType(cls) ==
    IF ~IsSubclass(cls, "Element")
    THEN Exc("Exception", <<"Could not verify type of element:",
                            "Input element not of type Element">>)
    ELSE NoExc

\* The outcome of a `do`: heap, returned reference (0 when it raised),
\* exception, log of the user functions called.
Returned(h, r, log) == [exc |-> NoExc, h |-> h, log |-> log, ret |-> r]
Threw(h, e, log) == [exc |-> e, h |-> h, log |-> log, ret |-> 0]

\* A variant of TransformerDo that hands the function None as the output.
TransformerDo_NoOutput(h, r, fn, meta) ==
    LET e == h[r]
        t == VerifyType(e.cls)
        res == TFnApply(fn, e.input, None, meta)
        h1 == [h EXCEPT ![r].output = res.val]
        c == VerifyFnOutput(fn.ann, res.val.ty)
        log == <<LogEntry(fn, meta)>>
    IN IF Raised(t) THEN Threw(h, t, <<>>)
       ELSE IF Raised(res.exc) THEN Threw(h, res.exc, log)
       ELSE IF Raised(c) THEN Threw(h1, c, log)
       ELSE Returned(h1, r, log)

\* A variant of TransformerDo that puts the output back when the check of
\* the return type fails.
TransformerDo_RollsBack(h, r, fn, meta) ==
    LET e == h[r]
        t == VerifyType(e.cls)
        res == TFnApply(fn, e.input, e.output, meta)
        h1 == [h EXCEPT ![r].output = res.val]
        c == VerifyFnOutput(fn.ann, res.val.ty)
        log == <<LogEntry(fn, meta)>>
    IN IF Raised(t) THEN Threw(h, t, <<>>)
       ELSE IF Raised(res.exc) THEN Threw(h, res.exc, log)
       ELSE IF Raised(c) THEN Threw(h, c, log)
       ELSE Returned(h1, r, log)

\* Transformer.do
TransformerDo(h, r, fn, meta) ==
    LET e == h[r]
        t == VerifyType(e.cls)
        res == TFnApply(fn, e.input, e.output, meta)
        h1 == [h EXCEPT ![r].output = res.val]
        c == VerifyFnOutput(fn.ann, res.val.ty)
        log == <<LogEntry(fn, meta)>>
    IN IF Raised(t) THEN Threw(h, t, <<>>)
       ELSE IF Raised(res.exc) THEN Threw(h, res.exc, log)
       ELSE IF Raised(c) THEN Threw(h1, c, log)
       ELSE Returned(h1, r, log)

MutableTypeError(before, after) ==
    Exc("TypeError", <<"A mutable can change the data and not the data type:",
                       "Gave", before, "got", after>>)

\* A variant of MutableDo that compares the types of the live element with
\* those of the copy taken before the call.
MutableDo_ChecksLive(h, r, fn, meta) ==
    LET input_element == h[r]
        t0 == VerifyType(input_element.cls)
        res == MFnApply(fn, h[r], meta)
        h1 == [h EXCEPT ![r] = res.e]
        output_element == res.out
        t1 == VerifyType(output_element.cls)
        c == VerifyFnOutput(fn.ann, output_element.cls)
        log == <<LogEntry(fn, meta)>>
    IN IF Raised(t0) THEN Threw(h, t0, <<>>)
       ELSE IF Raised(res.exc) THEN Threw(h1, res.exc, log)
       ELSE IF Raised(t1) THEN Threw(h1, t1, log)
       ELSE IF Raised(c) THEN Threw(h1, c, log)
       ELSE IF input_element.input.ty # res.e.input.ty
       THEN Threw(h1, MutableTypeError(input_element.input.ty,
                                       res.e.input.ty), log)
       ELSE IF input_element.output.ty # res.e.output.ty
       THEN Threw(h1, MutableTypeError(input_element.output.ty,
                                       res.e.output.ty), log)
       ELSE Returned(h1, r, log)

\* Mutable.do
MutableDo(h, r, fn, meta) ==
    LET input_element == h[r]
        t0 == VerifyType(input_element.cls)
        res == MFnApply(fn, h[r], meta)
        h1 == [h EXCEPT ![r] = res.e]
        output_element == res.out
        t1 == VerifyType(output_element.cls)
        c == VerifyFnOutput(fn.ann, output_element.cls)
        log == <<LogEntry(fn, meta)>>
    IN IF Raised(t0) THEN Threw(h, t0, <<>>)
       ELSE IF Raised(res.exc) THEN Threw(h1, res.exc, log)
       ELSE IF Raised(t1) THEN Threw(h1, t1, log)
       ELSE IF Raised(c) THEN Threw(h1, c, log)
       ELSE IF input_element.input.ty # output_element.input.ty
       THEN Threw(h1, MutableTypeError(input_element.input.ty,
                                       output_element.input.ty), log)
       ELSE IF input_element.output.ty # output_element.output.ty
       THEN Threw(h1, MutableTypeError(input_element.output.ty,
                                       output_element.output.ty), log)
       ELSE Returned(h1, r, log)

(***************************************************************************)
(* Events.  Every event is a record of one shape:                          *)
(*   k      "Transformer" | "Mutable" | "Verifier" | "Chain" | "AllChain"  *)
(*          | "AnyChain" | "Selector"                                      *)
(*   fn     the function of a Changeable, the verifier_fn of a Verifier    *)
(*   events the wrapped Changeable of a Verifier, the ordered_events of a  *)
(*          Chain, the chains handed to a Selector                         *)
(*   tag    the routing tag of a Chain                                     *)
(*   logger whether a Selector was given a logger                          *)
(***************************************************************************)
Event(k, fn, events, tag, id, logger) ==
    [events |-> events, fn |-> fn, id |-> id, k |-> k, logger |-> logger,
     tag |-> tag]

Transformer(fn) == Event("Transformer", fn, <<>>, NoTag, "", FALSE)
Mutable(fn) == Event("Mutable", fn, <<>>, NoTag, "", FALSE)
Verifier(changeable, verifier_fn) ==
    Event("Verifier", verifier_fn, <<changeable>>, NoTag, "", FALSE)
Chain(k, ordered_events, tag, id) ==
    Event(k, NoFn, ordered_events, tag, id, FALSE)
Selector(chains, logger, id) ==
    Event("Selector", NoFn, chains, NoTag, id, logger)

\* The number of parameters the function of a Transformer must have.
TransformerArgs == 3
\* The number of parameters the function of a Mutable must have.
MutableArgs == 2

\* A variant of VerifyFn that accepts a function with fewer parameters.
VerifyFn_AtMost(k, fn) ==
    IF k = "Transformer" /\ fn.nargs > TransformerArgs
    THEN Exc("TypeError", <<"A Transformer function must take exactly three",
                            "arguments: input, output and meta.">>)
    ELSE IF k = "Mutable" /\ fn.nargs > MutableArgs
    THEN Exc("TypeError", <<"A Mutable function must take exactly two",
                            "arguments: Element and Meta.">>)
    ELSE NoExc

\* Transformer.__verify_fn__ and Mutable.__verify_fn__
VerifyFn(k, fn) ==
    IF k = "Transformer" /\ fn.nargs # TransformerArgs
    THEN Exc("TypeError", <<"A Transformer function must take exactly three",
                            "arguments: input, output and meta.">>)
    ELSE IF k = "Mutable" /\ fn.nargs # MutableArgs
    THEN Exc("TypeError", <<"A Mutable function must take exactly two",
                            "arguments: Element and Meta.">>)
    ELSE NoExc

\* Changeable.__init__ of class k: the exception raised, if any.
ChangeableInit(k, fn) == VerifyFn(k, fn)

ChainKinds == {"Chain", "AllChain", "AnyChain"}

RECURSIVE Do(_, _, _, _)
RECURSIVE ChainFrom(_, _, _, _, _, _)
RECURSIVE AnyChainFrom(_, _, _, _, _, _, _)

(***************************************************************************)
(* Verifier                                                                *)
(***************************************************************************)
VerifierNotice(vre) ==
    Notice(<<"Verifier did raise error:">> \o vre.msg, "ERROR")

\* A variant of VerifierDo whose handler catches every exception of the
\* verifier function.
VerifierDo_CatchesAll(h, r, ev, meta) ==
    LET res == Do(ev.events[1], h, r, meta)
        element == res.ret
        vexc == IF ev.fn.act \in {"raise", "raiseVRE"} THEN FnError(ev.fn)
                ELSE NoExc
        log == res.log \o <<LogEntry(ev.fn, meta)>>
    IN IF Raised(res.exc) THEN res
       ELSE IF Raised(vexc)
       THEN Returned([res.h EXCEPT ![element].notices =
                         NoticesAdd(@, VerifierNotice(vexc))], element, log)
       ELSE Returned(res.h, element, log)

\* A variant of VerifierDo whose try block also encloses the wrapped
\* Changeable.
VerifierDo_TryAround(h, r, ev, meta) ==
    LET res == Do(ev.events[1], h, r, meta)
        element == res.ret
        vexc == IF ev.fn.act \in {"raise", "raiseVRE"} THEN FnError(ev.fn)
                ELSE NoExc
        log == res.log \o <<LogEntry(ev.fn, meta)>>
    IN IF IsInstance(res.exc, "VerifierRaisedException")
       THEN Returned([res.h EXCEPT ![r].notices =
                         NoticesAdd(@, VerifierNotice(res.exc))], r, res.log)
       ELSE IF Raised(res.exc) THEN res
       ELSE IF IsInstance(vexc, "VerifierRaisedException")
       THEN Returned([res.h EXCEPT ![element].notices =
                         NoticesAdd(@, VerifierNotice(vexc))], element, log)
       ELSE IF Raised(vexc) THEN Threw(res.h, vexc, log)
       ELSE Returned(res.h, element, log)

\* Verifier.do
VerifierDo(h, r, ev, meta) ==
    LET res == Do(ev.events[1], h, r, meta)
        element == res.ret
        vexc == IF ev.fn.act \in {"raise", "raiseVRE"} THEN FnError(ev.fn)
                ELSE NoExc
        log == res.log \o <<LogEntry(ev.fn, meta)>>
    IN IF Raised(res.exc) THEN res
       ELSE IF IsInstance(vexc, "VerifierRaisedException")
       THEN Returned([res.h EXCEPT ![element].notices =
                         NoticesAdd(@, VerifierNotice(vexc))], element, log)
       ELSE IF Raised(vexc) THEN Threw(res.h, vexc, log)
       ELSE Returned(res.h, element, log)

(***************************************************************************)
(* Chain, AllChain, AnyChain                                               *)
(***************************************************************************)
\* The loop of Chain.do from event i on: element = event.do(element, meta).
ChainFrom(events, i, h, r, meta, log) ==
    IF i > Len(events) THEN Returned(h, r, log)
    ELSE LET res == Do(events[i], h, r, meta) IN
         IF Raised(res.exc) THEN Threw(res.h, res.exc, log \o res.log)
         ELSE ChainFrom(events, i + 1, res.h, res.ret, meta, log \o res.log)

\* Chain.do; AllChain.do calls it through super().
ChainDo(h, r, ev, meta) == ChainFrom(ev.events, 1, h, r, meta, <<>>)

\* A variant of AnyChainNotice that leaves the position out of the message.
AnyChainNotice_NoIndex(i, e) ==
    Notice(<<"Error when computing AnyChain", ":">> \o e.msg, "ERROR")

AnyChainNotice(i, e) ==
    Notice(<<"Error when computing AnyChain", ToString(i), ":">> \o e.msg,
           "ERROR")

RECURSIVE AddAnyChainNotices(_, _, _)
\* The closing loop of AnyChain.do over zip(range(n), exceptions), from i on.
AddAnyChainNotices(notices, exceptions, i) ==
    IF i >= Len(exceptions) THEN notices
    ELSE AddAnyChainNotices(
             NoticesAdd(notices, AnyChainNotice(i, exceptions[i + 1])),
             exceptions, i + 1)

\* A variant of AnyChainFrom that goes on to the next event after a success.
AnyChainFrom_NoReturn(events, i, h, r, meta, log, exceptions) ==
    IF i > Len(events)
    THEN Returned([h EXCEPT ![r].notices =
                      AddAnyChainNotices(@, exceptions, 0)], r, log)
    ELSE LET res == Do(events[i], h, r, meta) IN
         AnyChainFrom(events, i + 1, res.h, r, meta, log \o res.log,
                      IF Raised(res.exc) THEN Append(exceptions, res.exc)
                      ELSE exceptions)

\* The first loop of AnyChain.do from event i on, then the closing loop.
AnyChainFrom(events, i, h, r, meta, log, exceptions) ==
    IF i > Len(events)
    THEN Returned([h EXCEPT ![r].notices =
                      AddAnyChainNotices(@, exceptions, 0)], r, log)
    ELSE LET res == Do(events[i], h, r, meta) IN
         IF Raised(res.exc)
         THEN AnyChainFrom(events, i + 1, res.h, r, meta, log \o res.log,
                           Append(exceptions, res.exc))
         ELSE Returned(res.h, res.ret, log \o res.log)

\* AnyChain.do
AnyChainDo(h, r, ev, meta) ==
    AnyChainFrom(ev.events, 1, h, r, meta, <<>>, <<>>)

(***************************************************************************)
(* Selector                                                                *)
(***************************************************************************)
RECURSIVE Register(_, _, _)
\* A variant of Register that keeps the chain registered first under a tag.
Register_KeepFirst(chains, logger, st) ==
    IF st.i > Len(chains) THEN st
    ELSE LET chain == chains[st.i]
             seen == chain.tag \in DOMAIN st.chains
         IN Register(chains, logger,
                     [chains |-> IF seen THEN st.chains
                                 ELSE (chain.tag :> chain) @@ st.chains,
                      i |-> st.i + 1,
                      warnings |-> IF seen /\ logger THEN st.warnings + 1
                                   ELSE st.warnings])

\* The loop of Selector.__init__ from chain i on: the registry it builds
\* (tag -> chain, tags as its domain) and the warnings it logs.
Register(chains, logger, st) ==
    IF st.i > Len(chains) THEN st
    ELSE LET chain == chains[st.i]
             warn == chain.tag \in DOMAIN st.chains /\ logger
             others == [t \in DOMAIN st.chains \ {chain.tag} |-> st.chains[t]]
         IN Register(chains, logger,
                     [chains |-> (chain.tag :> chain) @@ others,
                      i |-> st.i + 1,
                      warnings |-> IF warn THEN st.warnings + 1
                                   ELSE st.warnings])

\* Selector.__init__
SelectorInit(chains, logger) ==
    Register(chains, logger, [chains |-> <<>>, i |-> 1, warnings |-> 0])

\* A variant of ChainNotFound that raises a plain Exception.
ChainNotFound_Plain(msg) == Exc("Exception", msg)

\* ChainNotFoundException(msg)
ChainNotFound(msg) == Exc("ChainNotFoundException", msg)

\* A variant of Select without the fall back to the default chain.
Select_NoFallback(h, r, chains) ==
    LET t == ElementTag(h, r)
        tag == IF t.val \in DOMAIN chains THEN t.val ELSE NoTag
    IN IF Raised(t.exc)
       THEN [chain |-> Selector(<<>>, FALSE, ""), exc |-> t.exc,
             found |-> FALSE, h |-> t.h]
       ELSE IF t.val \in DOMAIN chains
       THEN [chain |-> chains[t.val], exc |-> NoExc, found |-> TRUE, h |-> t.h]
       ELSE [chain |-> Selector(<<>>, FALSE, ""),
             exc |-> ChainNotFound(<<"Chain with tag", t.val,
                                     "was not registered.">>),
             found |-> FALSE, h |-> t.h]

\* Selector.select: the heap after reading element.tag, the chain found
\* (when found is TRUE), the exception.
Select(h, r, chains) ==
    LET t == ElementTag(h, r)
        tag == t.val
        has_default == NoTag \in DOMAIN chains
        miss(e) == [chain |-> Selector(<<>>, FALSE, ""), exc |-> e,
                    found |-> FALSE, h |-> t.h]
        hit(c) == [chain |-> c, exc |-> NoExc, found |-> TRUE, h |-> t.h]
    IN IF Raised(t.exc) THEN miss(t.exc)
       ELSE IF tag = NoTag /\ ~has_default
       THEN miss(ChainNotFound(<<"Deafult (None) Chain was not registered.">>))
       ELSE IF tag = NoTag /\ has_default
       THEN hit(chains[NoTag])
       ELSE IF tag # NoTag /\ ~has_default
       THEN IF tag \in DOMAIN chains THEN hit(chains[tag])
            ELSE miss(ChainNotFound(<<"Chain with tag", tag,
                                      "was not registered.">>))
       ELSE IF tag \in DOMAIN chains THEN hit(chains[tag])
            ELSE hit(chains[NoTag])

\* A variant of ChainRaisedNotice that leaves the error out of the message.
ChainRaisedNotice_NoError(chain, e) ==
    Notice(<<"Chain", chain.k, "id:", chain.id, "raised">>, "ERROR")

\* The notice Selector.do records when the chain it selected raises.
ChainRaisedNotice(chain, e) ==
    Notice(<<"Chain", chain.k, "id:", chain.id, "raised">> \o e.msg, "ERROR")

\* A variant of SelectorDo without the closing `except Exception: pass`.
SelectorDo_Propagates(h, r, ev, meta) ==
    LET s == Select(h, r, SelectorInit(ev.events, ev.logger).chains)
        res == Do(s.chain, s.h, r, meta)
    IN IF IsInstance(s.exc, "ChainNotFoundException")
       THEN Returned([s.h EXCEPT ![r].notices =
                         NoticesAdd(@, Notice(s.exc.msg, "ERROR"))], r, <<>>)
       ELSE IF Raised(s.exc) THEN Threw(s.h, s.exc, <<>>)
       ELSE IF Raised(res.exc)
       THEN Returned([res.h EXCEPT ![r].notices =
                         NoticesAdd(@, ChainRaisedNotice(s.chain, res.exc))],
                     r, res.log)
       ELSE Returned(res.h, res.ret, res.log)

\* A variant of SelectorDo without the inner try block around chain.do.
SelectorDo_ChainPropagates(h, r, ev, meta) ==
    LET s == Select(h, r, SelectorInit(ev.events, ev.logger).chains)
        res == Do(s.chain, s.h, r, meta)
    IN IF IsInstance(s.exc, "ChainNotFoundException")
       THEN Returned([s.h EXCEPT ![r].notices =
                         NoticesAdd(@, Notice(s.exc.msg, "ERROR"))], r, <<>>)
       ELSE IF Raised(s.exc) THEN Returned(s.h, r, <<>>)
       ELSE IF Raised(res.exc) THEN Threw(res.h, res.exc, res.log)
       ELSE Returned(res.h, res.ret, res.log)

\* Selector.do
SelectorDo(h, r, ev, meta) ==
    LET s == Select(h, r, SelectorInit(ev.events, ev.logger).chains)
        res == Do(s.chain, s.h, r, meta)
    IN IF IsInstance(s.exc, "ChainNotFoundException")
       THEN Returned([s.h EXCEPT ![r].notices =
                         NoticesAdd(@, Notice(s.exc.msg, "ERROR"))], r, <<>>)
       ELSE IF Raised(s.exc) THEN Returned(s.h, r, <<>>)
       ELSE IF Raised(res.exc)
       THEN Returned([res.h EXCEPT ![r].notices =
                         NoticesAdd(@, ChainRaisedNotice(s.chain, res.exc))],
                     r, res.log)
       ELSE Returned(res.h, res.ret, res.log)

\* event.do(element, meta), dispatched on the class of the event.
Do(ev, h, r, meta) ==
    CASE ev.k = "Transformer" -> TransformerDo(h, r, ev.fn, meta)
      [] ev.k = "Mutable" -> MutableDo(h, r, ev.fn, meta)
      [] ev.k = "Verifier" -> VerifierDo(h, r, ev, meta)
      [] ev.k = "AnyChain" -> AnyChainDo(h, r, ev, meta)
      [] ev.k = "Selector" -> SelectorDo(h, r, ev, meta)
      [] OTHER -> ChainDo(h, r, ev, meta)

(***************************************************************************)
(* The inputs of the model: elements, user functions, events.              *)
(***************************************************************************)
Metas == {"meta"}

InitialElements ==
    { NewElement("Element", input, tag, "e1") :
        input \in {Dict(0), Dict(1), List(0)},
        tag \in {StaticTag(NoTag), StaticTag("a"), StaticTag("b"),
                 DerivedTag("byInput"), DerivedTag("broken")} }
    \cup { NewElement("MyElement", Dict(0), tag, "e1") :
              tag \in {StaticTag(NoTag), StaticTag("a")} }

\* Transformer functions: def f(inp, out, met) -> ann
tIdentity == Fn("tIdentity", 3, "dict", "input", None, "self")
tWrongType == Fn("tWrongType", 3, "list", "const", Dict(1), "self")
tRaises == Fn("tRaises", 3, "dict", "raise", None, "self")
tPrevious == Fn("tPrevious", 3, "dict", "prev", None, "self")
tTypingList == Fn("tTypingList", 3, "typing.List", "const", List(0), "self")
tRejects == Fn("tRejects", 3, "dict", "raiseVRE", None, "self")

TransformerFns == {tIdentity, tWrongType, tRaises, tPrevious, tTypingList}

\* Mutable functions: def f(elem, meta) -> ann
mSetInput == Fn("mSetInput", 2, "Element", "setInput", Dict(1), "self")
mInputToList == Fn("mInputToList", 2, "Element", "setInput", List(1), "self")
mSetOutput == Fn("mSetOutput", 2, "Element", "setOutput", Dict(0), "self")
mReturnsList == Fn("mReturnsList", 2, "dict", "none", None, "list")
mRaises == Fn("mRaises", 2, "Element", "raise", None, "self")
mSubclass == Fn("mSubclass", 2, "MyElement", "none", None, "self")
mReturnsOther == Fn("mReturnsOther", 2, "Element", "setInput", List(1), "other")

mNoAnnotation == Fn("mNoAnnotation", 2, "_empty", "none", None, "self")

MutableFns == {mSetInput, mInputToList, mSetOutput, mReturnsList, mRaises,
               mSubclass, mReturnsOther, mNoAnnotation}

\* Functions handed to the constructors: also of no, one and four
\* parameters, and annotated with a list literal.
fNoArgs == Fn("fNoArgs", 0, "_empty", "none", None, "self")
fOneArg == Fn("fOneArg", 1, "_empty", "none", None, "self")
fFourArgs == Fn("fFourArgs", 4, "dict", "none", None, "self")
tListLiteral == Fn("tListLiteral", 3, "[dict]", "const", List(0), "self")

ConstructorFns ==
    TransformerFns \cup MutableFns
        \cup {fNoArgs, fOneArg, fFourArgs, tListLiteral}

\* Verifier functions: def f(element, meta)
vPasses == Fn("vPasses", 2, "_empty", "none", None, "self")
vRejects == Fn("vRejects", 2, "_empty", "raiseVRE", None, "self")
vRaises == Fn("vRaises", 2, "_empty", "raise", None, "self")

VerifierFns == {vPasses, vRejects, vRaises}

Changeables ==
    {Transformer(tIdentity), Transformer(tWrongType), Mutable(mRaises),
     Transformer(tRejects)}

Verifiers == {Verifier(c, v) : c \in Changeables, v \in VerifierFns}

\* The events chains are built from.
Steps ==
    {Transformer(tIdentity), Transformer(tWrongType), Transformer(tRaises),
     Mutable(mSetInput), Mutable(mInputToList), Mutable(mRaises),
     Verifier(Transformer(tIdentity), vRejects),
     Selector(<<Chain("AllChain", <<Mutable(mRaises)>>, "a", "routed")>>,
              FALSE, "nested")}

SeqsUpTo(S, n) == UNION {[1..k -> S] : k \in 0..n}

\* The events the longest chains are built from.
CoreSteps ==
    {Transformer(tIdentity), Transformer(tWrongType), Transformer(tRaises)}

\* Chains whose second step hands back the output the first has left.
PreviousSeqs ==
    {<<Transformer(fn), Transformer(tPrevious)>> :
        fn \in {tIdentity, tWrongType, tRaises}}

StepSeqs ==
    SeqsUpTo(Steps, MaxSteps - 1) \cup [1..MaxSteps -> CoreSteps]
        \cup PreviousSeqs

\* The chains selectors are built from.
RoutedChains ==
    {Chain("AllChain", <<Transformer(tIdentity)>>, NoTag, "c0"),
     Chain("AnyChain", <<Mutable(mSetInput), Mutable(mReturnsList)>>, "a",
           "c1"),
     Chain("Chain", <<Mutable(mSetInput), Transformer(tRaises)>>, "a", "c2"),
     Chain("Chain", <<Transformer(tWrongType)>>, NoTag, "c3")}

ChainLists == SeqsUpTo(RoutedChains, MaxChains)

\* Selectors built without a logger (select and do never use it).
Selectors == {Selector(chains, FALSE, "s") : chains \in ChainLists}

(***************************************************************************)
(* The state machine.  heap holds the caller's objects; last records the   *)
(* call in progress: its name, the event it was applied to, the heap       *)
(* before it and its outcome.  A call starts when no call is recorded and  *)
(* the caller takes its outcome (Resume) before the next call.             *)
(***************************************************************************)
NoEvent == Selector(<<>>, FALSE, "")

NoOutcome == Returned(<<>>, 0, <<>>)

Op(op, ev, meta, pre, res, val, found, chain, warnings) ==
    [chain |-> chain, ev |-> ev, found |-> found, meta |-> meta, op |-> op,
     pre |-> pre, res |-> res, val |-> val, warnings |-> warnings]

Idle == Op("idle", NoEvent, "", <<>>, NoOutcome, NoTag, FALSE, NoEvent, 0)

Init ==
    /\ heap \in {<<e>> : e \in InitialElements}
    /\ last = Idle
    /\ nops = 0

\* A call may start: none is in progress and the behaviour has calls left.
CanCall == last = Idle /\ nops < MaxOps

\* The caller takes the outcome of the call; the heap keeps what it did.
Resume ==
    /\ last # Idle
    /\ last' = Idle
    /\ UNCHANGED <<heap, nops>>

\* The caller applies event ev to its element.
Apply(op, ev, meta) ==
    LET res == Do(ev, heap, 1, meta) IN
    /\ CanCall
    /\ heap' = res.h
    /\ last' = Op(op, ev, meta, heap, res, NoTag, FALSE, NoEvent, 0)
    /\ nops' = nops + 1

\* tag = element.tag
ReadTag ==
    LET t == ElementTag(heap, 1) IN
    /\ CanCall
    /\ heap' = t.h
    /\ last' = Op("Element.tag", NoEvent, "", heap,
                  [exc |-> t.exc, h |-> t.h, log |-> <<>>, ret |-> 0],
                  t.val, FALSE, NoEvent, 0)
    /\ nops' = nops + 1

DoTransformer ==
    \E fn \in TransformerFns, meta \in Metas :
        Apply("Transformer.do", Transformer(fn), meta)

DoMutable ==
    \E fn \in MutableFns, meta \in Metas :
        Apply("Mutable.do", Mutable(fn), meta)

DoVerifier ==
    \E ev \in Verifiers, meta \in Metas : Apply("Verifier.do", ev, meta)

DoAllChain ==
    \E events \in StepSeqs, meta \in Metas :
        Apply("AllChain.do", Chain("AllChain", events, NoTag, "all"), meta)

DoAnyChain ==
    \E events \in StepSeqs, meta \in Metas :
        Apply("AnyChain.do", Chain("AnyChain", events, NoTag, "any"), meta)

\* Selector(chains, logger)
NewSelector ==
    \E chains \in ChainLists, logger \in BOOLEAN :
        LET s == SelectorInit(chains, logger) IN
        /\ CanCall
        /\ last' = Op("Selector.__init__", Selector(chains, logger, "s"), "",
                      heap, NoOutcome, NoTag, FALSE, NoEvent, s.warnings)
        /\ nops' = nops + 1
        /\ UNCHANGED heap

\* Transformer(fn) and Mutable(fn): the call records the event asked for
\* and the exception of the constructor.
NewChangeable ==
    \E k \in {"Transformer", "Mutable"}, fn \in ConstructorFns :
        /\ CanCall
        /\ last' = Op(k \o ".__init__",
                      Event(k, fn, <<>>, NoTag, "", FALSE), "", heap,
                      Threw(heap, ChangeableInit(k, fn), <<>>), NoTag, FALSE,
                      NoEvent, 0)
        /\ nops' = nops + 1
        /\ UNCHANGED heap

\* selector.select(element)
SelectorSelect ==
    \E ev \in Selectors :
        LET s == Select(heap, 1, SelectorInit(ev.events, ev.logger).chains) IN
        /\ CanCall
        /\ heap' = s.h
        /\ last' = Op("Selector.select", ev, "", heap,
                      [exc |-> s.exc, h |-> s.h, log |-> <<>>, ret |-> 0],
                      NoTag, s.found, s.chain, 0)
        /\ nops' = nops + 1

DoSelector ==
    \E ev \in Selectors, meta \in Metas : Apply("Selector.do", ev, meta)

Next ==
    \/ ReadTag
    \/ DoTransformer
    \/ DoMutable
    \/ DoVerifier
    \/ DoAllChain
    \/ DoAnyChain
    \/ NewSelector
    \/ NewChangeable
    \/ SelectorSelect
    \/ DoSelector
    \/ Resume

Spec == Init /\ [][Next]_vars

(***************************************************************************)
(* Properties.  Each is stated on the record of the call in progress: the  *)
(* element before the call (Before), the element after it (After) and the  *)
(* outcome of the call (last.res).                                         *)
(***************************************************************************)
Before == last.pre[1]
After == heap[1]
Outcome == last.res

ErrorNotice(msg) == [level |-> "ERROR", msg |-> msg]

\* What the tag function of the element before the call does when called.
TagCall == TagFnApply(Before.tag.v, Before)
TagFails == Before.tag.callable /\ Raised(TagCall.exc)

\* The notice that describes the failure of the tag function.
TagFailureNotice ==
    ErrorNotice(<<"Tag of element", Before.cls, "could not be resolved:">>
                    \o TagCall.exc.msg)

\* C10: reading the tag of an element whose tag function raises raises to
\* the reader and leaves the element with exactly one ERROR notice describing
\* the failure, also when that notice was recorded by an earlier read; reading
\* a constant tag or a tag function that returns adds no notice and yields
\* the constant or the value the function returns for the element as it is.
C10_TagRead ==
    last.op = "Element.tag" =>
        IF TagFails
        THEN /\ Raised(Outcome.exc)
             /\ Outcome.exc.msg = TagFailureNotice.msg
             /\ After = [Before EXCEPT !.notices = @ \cup {TagFailureNotice}]
             /\ Cardinality({n \in After.notices :
                                n.msg = TagFailureNotice.msg}) = 1
             /\ TagFailureNotice \in Before.notices => After = Before
        ELSE /\ ~Raised(Outcome.exc)
             /\ After = Before
             /\ last.val = IF Before.tag.callable THEN TagCall.val
                           ELSE Before.tag.v

\* A second read of a tag whose function raises the same error again.
C10_Witness ==
    /\ last.op = "Element.tag"
    /\ TagFails
    /\ Raised(Outcome.exc)
    /\ TagFailureNotice \in Before.notices
    /\ Cardinality(After.notices) = 1

\* The chains handed to the selector of the call, and what registering them
\* in order leaves under a tag: the chain handed over last with that tag.
Handed == last.ev.events
Registered(t) == \E i \in 1..Len(Handed) : Handed[i].tag = t
LastRegistered(t) ==
    Handed[CHOOSE i \in 1..Len(Handed) :
               /\ Handed[i].tag = t
               /\ \A j \in (i + 1)..Len(Handed) : Handed[j].tag # t]

\* The tag the element before the call resolves to.
TagBefore == IF Before.tag.callable THEN TagCall.val ELSE Before.tag.v

Selected(chain) ==
    /\ ~Raised(Outcome.exc)
    /\ last.found
    /\ last.chain = chain

RoutingError(msg) ==
    /\ ~last.found
    /\ Outcome.exc = [kind |-> "ChainNotFoundException", msg |-> msg]

\* C5: Selector.select follows the decision table: no tag and no default
\* chain is the error "no default chain"; no tag and a default chain selects
\* the default chain; a tag and no default chain selects the chain of the tag
\* when one is registered and is the error "chain not found" otherwise; a tag
\* and a default chain selects the chain of the tag when one is registered
\* and the default chain otherwise.
C5_SelectDecisionTable ==
    (last.op = "Selector.select" /\ ~TagFails) =>
        LET absent == TagBefore = NoTag
            default == Registered(NoTag)
        IN /\ (absent /\ ~default) =>
                  RoutingError(<<"Deafult (None) Chain was not registered.">>)
           /\ (absent /\ default) => Selected(LastRegistered(NoTag))
           /\ (~absent /\ ~default /\ Registered(TagBefore)) =>
                  Selected(LastRegistered(TagBefore))
           /\ (~absent /\ ~default /\ ~Registered(TagBefore)) =>
                  RoutingError(<<"Chain with tag", TagBefore,
                                 "was not registered.">>)
           /\ (~absent /\ default /\ Registered(TagBefore)) =>
                  Selected(LastRegistered(TagBefore))
           /\ (~absent /\ default /\ ~Registered(TagBefore)) =>
                  Selected(LastRegistered(NoTag))

\* A tagged element, no chain under its tag, a default chain: the default
\* chain is selected.
C5_Witness ==
    /\ last.op = "Selector.select"
    /\ ~TagFails
    /\ TagBefore = "b"
    /\ Registered(NoTag)
    /\ Registered("a")
    /\ last.found
    /\ last.chain.tag = NoTag

\* The warnings a logger receives while the chains are registered: one for
\* each chain whose tag an earlier chain of the list carries.
Replacements ==
    Cardinality({i \in 1..Len(Handed) :
                    \E j \in 1..(i - 1) : Handed[j].tag = Handed[i].tag})

\* C6: for an element with a constant tag that equals the tag of a registered
\* chain (the default key included), Selector.select returns exactly the
\* chain registered under that tag, which is the one registered last when
\* several carry the tag; the logger is warned once per replacement, and only
\* when a logger was supplied.
C6_SelectRegisteredTag ==
    /\ (last.op = "Selector.select" /\ ~Before.tag.callable
            /\ Registered(Before.tag.v)) =>
           /\ Selected(LastRegistered(Before.tag.v))
           /\ After = Before
    /\ last.op = "Selector.__init__" =>
           last.warnings = IF last.ev.logger THEN Replacements ELSE 0

\* Two different chains registered under the tag of the element: the second
\* one is returned.
C6_Witness ==
    /\ last.op = "Selector.select"
    /\ ~Before.tag.callable
    /\ Len(Handed) = 2
    /\ Handed[1].tag = Before.tag.v
    /\ Handed[2].tag = Before.tag.v
    /\ Handed[1] # Handed[2]
    /\ last.chain = Handed[2]

(***************************************************************************)
(* Chains.  Try(j) is the outcome of the j-th event of the chain of the    *)
(* call when the events before it have been applied in order, each to the  *)
(* element as the one before left it; Tried(j) is the heap the first j     *)
(* events leave.                                                           *)
(***************************************************************************)
RECURSIVE Tried(_)
Tried(j) ==
    IF j = 0 THEN last.pre ELSE Do(Handed[j], Tried(j - 1), 1, last.meta).h

Try(j) == Do(Handed[j], Tried(j - 1), 1, last.meta)

RECURSIVE Calls(_)
\* The user functions the first j events call.
Calls(j) == IF j = 0 THEN <<>> ELSE Calls(j - 1) \o Try(j).log

AllRaise == \A j \in 1..Len(Handed) : Raised(Try(j).exc)

\* The notice AnyChain.do records for its j-th event (position j - 1).
AnyChainFailure(j) ==
    ErrorNotice(<<"Error when computing AnyChain", ToString(j - 1), ":">>
                    \o Try(j).exc.msg)

\* C1: when step k of an AllChain of N steps raises, exactly steps 1..k-1
\* have effects on the element, steps k+1..N are not invoked, the exception
\* that leaves AllChain.do is the one step k raised, and the chain adds no
\* notice.
C1_AllChainFailure ==
    (last.op = "AllChain.do" /\ Raised(Outcome.exc)) =>
        \E k \in 1..Len(Handed) :
            /\ \A j \in 1..(k - 1) : ~Raised(Try(j).exc)
            /\ Raised(Try(k).exc)
            /\ After.input = Tried(k - 1)[1].input
            /\ After.output = Tried(k - 1)[1].output
            /\ Outcome.log = Calls(k)
            /\ Outcome.exc = Try(k).exc
            /\ After.notices = Try(k).h[1].notices

C3_AnyChainAllRaiseUnchanged ==
    (last.op = "AnyChain.do" /\ AllRaise) =>
        /\ After.input = Before.input
        /\ After.output = Before.output

\* The first step of the chain of the call that does not raise (0: none).
FirstSuccess ==
    IF AllRaise THEN 0
    ELSE CHOOSE j \in 1..Len(Handed) :
             /\ ~Raised(Try(j).exc)
             /\ \A i \in 1..(j - 1) : Raised(Try(i).exc)

\* C4: AnyChain.do tries its steps in order and returns at the first one that
\* does not raise: no later step is invoked, the element returned is the
\* result of that step, and no notice is added for the steps that raised
\* before it.
C4_AnyChainShortCircuit ==
    (last.op = "AnyChain.do" /\ ~AllRaise) =>
        /\ ~Raised(Outcome.exc)
        /\ Outcome.ret = Try(FirstSuccess).ret
        /\ After = Try(FirstSuccess).h[1]
        /\ Outcome.log = Calls(FirstSuccess)
        /\ After.notices \ Try(FirstSuccess).h[1].notices = {}

\* Steps [fail, succeed, fail]: the second step's result, no notice.
C4_Witness ==
    /\ last.op = "AnyChain.do"
    /\ Len(Handed) = 3
    /\ Raised(Try(1).exc)
    /\ ~Raised(Try(2).exc)
    /\ Raised(Do(Handed[3], heap, 1, last.meta).exc)
    /\ Len(Outcome.log) = 2
    /\ After.output = Before.input
    /\ After.notices = {}

(***************************************************************************)
(* Selector.do                                                             *)
(***************************************************************************)
\* The tag resolves and the table of Selector.select has no chain for it.
RoutingFails ==
    /\ ~TagFails
    /\ ~Registered(NoTag)
    /\ ~Registered(TagBefore)

RoutingMessage ==
    IF TagBefore = NoTag THEN <<"Deafult (None) Chain was not registered.">>
    ELSE <<"Chain with tag", TagBefore, "was not registered.">>

\* The chain the table of Selector.select resolves the element to.
Resolved ==
    IF Registered(TagBefore) THEN LastRegistered(TagBefore)
    ELSE LastRegistered(NoTag)

\* What the resolved chain does to the element.
ResolvedRun == Do(Resolved, last.pre, 1, last.meta)

\* C7: when Selector.select fails with a routing error, Selector.do does not
\* raise: it runs no chain, adds one ERROR notice with the message of the
\* routing error, leaves input and output as they were and returns the
\* element.
C7_SelectorRoutingError ==
    (last.op = "Selector.do" /\ RoutingFails) =>
        /\ ~Raised(Outcome.exc)
        /\ Outcome.ret = 1
        /\ Outcome.log = <<>>
        /\ After = [Before EXCEPT
                       !.notices = @ \cup {ErrorNotice(RoutingMessage)}]

\* A second Selector.do without a chain for the element: the notice of the
\* first is not added again.
C7_Witness ==
    /\ last.op = "Selector.do"
    /\ RoutingFails
    /\ TagBefore = "b"
    /\ ErrorNotice(RoutingMessage) \in Before.notices
    /\ After = Before

\* C8: when the chain Selector.do resolved raises, Selector.do does not
\* propagate the exception: it adds one ERROR notice naming the chain and the
\* error and returns the element.
C8_SelectorChainRaises ==
    (last.op = "Selector.do" /\ ~TagFails /\ ~RoutingFails
         /\ Raised(ResolvedRun.exc)) =>
        /\ ~Raised(Outcome.exc)
        /\ Outcome.ret = 1
        /\ After = [ResolvedRun.h[1] EXCEPT
                       !.notices = @ \cup
                           {ErrorNotice(<<"Chain", Resolved.k, "id:",
                                          Resolved.id, "raised">>
                                            \o ResolvedRun.exc.msg)}]

\* The chain of tag "a" raises in its second step, after the first changed
\* the input.
C8_Witness ==
    /\ last.op = "Selector.do"
    /\ ~TagFails
    /\ ~RoutingFails
    /\ Resolved.id = "c2"
    /\ Raised(ResolvedRun.exc)
    /\ After.input # Before.input
    /\ Cardinality(After.notices) = 1

\* C9 (as stated): when reading the tag raises in Selector.do, the exception
\* is not propagated, no chain is run and no notice is recorded on the
\* element.
C9_SelectorTagFailureNoNotice ==
    (last.op = "Selector.do" /\ TagFails) =>
        /\ ~Raised(Outcome.exc)
        /\ Outcome.log = <<>>
        /\ After.notices = Before.notices

\* C9 (amended): when reading the tag raises in Selector.do, the exception is
\* not propagated, no chain is run and Selector.do records no notice of its
\* own; the element gains only the ERROR notice Element.tag records for the
\* failing tag function.
C9_SelectorTagFailure ==
    (last.op = "Selector.do" /\ TagFails) =>
        /\ ~Raised(Outcome.exc)
        /\ Outcome.ret = 1
        /\ Outcome.log = <<>>
        /\ After = [Before EXCEPT !.notices = @ \cup {TagFailureNotice}]

\* Selector.do on a fresh element whose tag function raises, with a default
\* chain registered.
C9_Witness ==
    /\ last.op = "Selector.do"
    /\ TagFails
    /\ Registered(NoTag)
    /\ Before.notices = {}
    /\ After.notices = {TagFailureNotice}
    /\ After.output = None

(***************************************************************************)
(* Transformer.do and Mutable.do                                           *)
(***************************************************************************)
\* The function of the Changeable of the call.
FnOf == last.ev.fn

FnRaises == FnOf.act \in {"raise", "raiseVRE"}

\* What the function of a Transformer returns for the element of the call.
TransformerResult ==
    CASE FnOf.act = "input" -> Before.input
      [] FnOf.act = "prev" -> Before.output
      [] OTHER -> FnOf.val

\* C15: Transformer.do calls the function with the input of the element, its
\* current output and the meta, replaces the output with the result, leaves
\* input, tag, id and notices as they were and returns the same element.
C15_TransformerDo ==
    (last.op = "Transformer.do") =>
        /\ Outcome.log = <<LogEntry(FnOf, last.meta)>>
        /\ After.input = Before.input
        /\ After.tag = Before.tag
        /\ After.id = Before.id
        /\ After.notices = Before.notices
        /\ After.cls = Before.cls
        /\ FnRaises => After.output = Before.output
        /\ ~FnRaises => After.output = TransformerResult
        /\ ~Raised(Outcome.exc) => Outcome.ret = 1

\* A function that returns the output it is handed, on an element that
\* already has an output different from its input.
C15_Witness ==
    /\ last.op = "Transformer.do"
    /\ FnOf = tPrevious
    /\ Before.input = Dict(0)
    /\ Before.output = Dict(1)
    /\ After.output = Dict(1)
    /\ ~Raised(Outcome.exc)

\* The element of the call as the function of a Mutable leaves it.
LiveAfter ==
    CASE FnOf.act = "setInput" -> [Before EXCEPT !.input = FnOf.val]
      [] FnOf.act = "setOutput" -> [Before EXCEPT !.output = FnOf.val]
      [] OTHER -> Before

\* The function of the Mutable returns an element: the one it was handed or
\* another one like the one it was handed.
ReturnsElement == FnOf.ret \in {"self", "other"}

ReturnedElement == IF FnOf.ret = "self" THEN LiveAfter ELSE Before

\* The runtime type of what the function of the call produces.
ProducedType ==
    IF last.op = "Transformer.do" THEN TransformerResult.ty
    ELSE ReturnedElement.cls

\* The call reaches the check of the return type.
CheckReached ==
    /\ last.op \in {"Transformer.do", "Mutable.do"}
    /\ ~FnRaises
    /\ last.op = "Mutable.do" => ReturnsElement

CheckRaised ==
    /\ Raised(Outcome.exc)
    /\ Outcome.exc.msg[1] = "Could not type check output:"

IsClass(ann) == ann \notin NonClassAnnotations

\* C16 (as stated): the check of the return type passes when the declared
\* type is a superclass of, or equal to, the runtime type of the value
\* produced, and raises otherwise.
C16_ReturnTypeSupertype ==
    CheckReached =>
        (~CheckRaised <=>
             (IsClass(FnOf.ann) /\ IsSubclass(ProducedType, FnOf.ann)))

\* C16 (amended): the check of the return type passes when the declared type
\* is a class that is a subclass of, or equal to, the runtime type of the
\* value produced, and raises otherwise (declared list and a dict returned
\* raises, declared dict and a dict returned passes).
C16_ReturnTypeCheck ==
    CheckReached =>
        (~CheckRaised <=>
             (IsClass(FnOf.ann) /\ IsSubclass(FnOf.ann, ProducedType)))

\* A Mutable whose function declares Element and returns the element it was
\* handed, of a subclass of Element: the check raises.
C16_Witness ==
    /\ last.op = "Mutable.do"
    /\ CheckReached
    /\ FnOf.ann = "Element"
    /\ ProducedType = "MyElement"
    /\ CheckRaised

\* C17: Mutable.do succeeds when the declared return type is a subclass of
\* the runtime class of the element returned and the types of input and
\* output are as before.
C17_MutableDeclaredSubclass ==
    ( /\ last.op = "Mutable.do"
      /\ ~FnRaises
      /\ ReturnsElement
      /\ IsClass(FnOf.ann)
      /\ IsSubclass(FnOf.ann, ReturnedElement.cls)
      /\ ReturnedElement.input.ty = Before.input.ty
      /\ ReturnedElement.output.ty = Before.output.ty )
    => (~Raised(Outcome.exc) /\ Outcome.ret = 1)

\* The function declares a subclass of Element and a plain Element is
\* returned.
C17_Witness ==
    /\ last.op = "Mutable.do"
    /\ FnOf.ann = "MyElement"
    /\ Before.cls = "Element"
    /\ ReturnsElement
    /\ ~Raised(Outcome.exc)
    /\ Outcome.ret = 1

\* C20: Mutable.do raises whenever the runtime type of the input of the
\* element after the function differs from its type before, or that of its
\* output, and succeeds when the function changes values only and keeps both
\* types.
C20_MutableKeepsTypes ==
    (last.op = "Mutable.do" /\ ~FnRaises) =>
        /\ ( \/ After.input.ty # Before.input.ty
             \/ After.output.ty # Before.output.ty ) => Raised(Outcome.exc)
        /\ ( /\ FnOf.ret = "self"
             /\ FnOf.ann = Before.cls
             /\ After.input.ty = Before.input.ty
             /\ After.output.ty = Before.output.ty ) => ~Raised(Outcome.exc)

(***************************************************************************)
(* Transformer(fn) and Mutable(fn)                                         *)
(***************************************************************************)
Constructs == last.op \in {"Transformer.__init__", "Mutable.__init__"}

\* The number of parameters the constructor of the call asks for.
Arity == IF last.op = "Transformer.__init__" THEN 3 ELSE 2

C19_ConstructorAnnotation ==
    ( /\ Constructs
      /\ FnOf.nargs = Arity
      /\ FnOf.ann = "_empty" \/ FnOf.ann \in NonClassAnnotations )
    => Raised(Outcome.exc)

(***************************************************************************)
(* Verifier.do                                                             *)
(***************************************************************************)
Verifies == last.op = "Verifier.do"

\* The outcome of the wrapped Changeable applied alone to the element as it
\* was before the call.
Wrapped == Do(last.ev.events[1], last.pre, 1, last.meta)

VerifierFailure ==
    ErrorNotice(<<"Verifier did raise error:", FnOf.name>>)

\* C21: when the verifier function raises VerifierRaisedException, nothing
\* is raised by Verifier.do: the element is returned as the wrapped
\* Changeable left it, with one more ERROR notice; any other exception of
\* the verifier function reaches the caller and adds no notice.
C21_VerifierFailure ==
    (Verifies /\ ~Raised(Wrapped.exc)) =>
        /\ FnOf.act = "raiseVRE" =>
              /\ ~Raised(Outcome.exc)
              /\ Outcome.ret = 1
              /\ After.input = Wrapped.h[1].input
              /\ After.output = Wrapped.h[1].output
              /\ After.notices = Wrapped.h[1].notices \cup {VerifierFailure}
        /\ FnOf.act = "raise" =>
              /\ Outcome.exc = Exc("Exception", <<FnOf.name>>)
              /\ After = Wrapped.h[1]
        /\ FnOf.act = "none" =>
              /\ ~Raised(Outcome.exc)
              /\ After = Wrapped.h[1]

\* A verifier that rejects an element the wrapped Transformer has given an
\* output.
C21_Witness ==
    /\ Verifies
    /\ FnOf.act = "raiseVRE"
    /\ ~Raised(Outcome.exc)
    /\ VerifierFailure \in After.notices
    /\ VerifierFailure \notin Before.notices
    /\ After.output # Before.output

\* C22: Verifier.do runs the wrapped Changeable before the verifier
\* function; when the wrapped Changeable raises, be it a
\* VerifierRaisedException of its function, that exception reaches the
\* caller, the verifier function is not called and no notice is added.
C22_VerifierWrappedFirst ==
    Verifies =>
        /\ Raised(Wrapped.exc) =>
              /\ Outcome.exc = Wrapped.exc
              /\ heap = Wrapped.h
              /\ Outcome.log = Wrapped.log
              /\ After.notices = Before.notices
        /\ ~Raised(Wrapped.exc) =>
              Outcome.log = Wrapped.log \o <<LogEntry(FnOf, last.meta)>>

\* The function of the wrapped Transformer raises VerifierRaisedException
\* under a verifier that would reject too.
C22_Witness ==
    /\ Verifies
    /\ Outcome.exc.kind = "VerifierRaisedException"
    /\ FnOf.act = "raiseVRE"
    /\ Outcome.log = <<LogEntry(tRejects, last.meta)>>
    /\ After.notices = Before.notices

(***************************************************************************)
(* Result and Process.  A batch is a heap of elements; the list handed to  *)
(* Process.run and the list of a Result hold references into it.           *)
(***************************************************************************)
\* How many elements a batch holds at most.
MaxBatch == 3
\* How many stages (the process and those appended to it) a pipeline has at
\* most.
MaxStages == 3
\* How many times Process.run is called in a behaviour at most.
MaxRuns == 1

Result(elements, notices) == [elements |-> elements, notices |-> notices]

\* Result.empty()
ResultEmpty == Result(<<>>, {})

\* Process(selector, meta=meta, id=id) with sub_process appended to it.
Process(selector, sub_process, meta, id) ==
    [id |-> id, meta |-> meta, selector |-> selector,
     sub_process |-> sub_process]

\* The selector of Process(selector=None): the constructor checks nothing.
NoSelector == Event("NoneType", NoFn, <<>>, NoTag, "", FALSE)

\* A variant of StageDo in which the selector hands back a copy of the
\* element.
StageDo_ReturnsCopy(process, h, r) ==
    IF process.selector = NoSelector
    THEN Threw(h, Exc("AttributeError",
                      <<"'NoneType' object has no attribute 'do'">>), <<>>)
    ELSE LET res == Do(process.selector, h, r, process.meta) IN
         Returned(Append(res.h, res.h[r]), Len(res.h) + 1, res.log)

\* process.selector.do(element=element, meta=process.meta)
StageDo(process, h, r) ==
    IF process.selector = NoSelector
    THEN Threw(h, Exc("AttributeError",
                      <<"'NoneType' object has no attribute 'do'">>), <<>>)
    ELSE Do(process.selector, h, r, process.meta)

\* The notice of Process._sub_run (the text of the process object itself,
\* which holds its address, is left out).
SubRunNotice(process, e) ==
    Notice(<<"Could not run process", process.id, "because of error:">>
               \o e.msg, "ERROR")

\* Process._sub_run, the except clause: result.elements was not assigned.
SubRunFailure(process, done, e, h, log) ==
    [exc |-> NoExc, h |-> h, log |-> log,
     result |-> Result(<<>>, {SubRunNotice(process, e)})]

RECURSIVE SubRunFrom_Stops(_, _, _, _, _, _)
\* A variant of SubRunStep in which an element that comes back with a
\* notice ends the stage as an exception does.
SubRunStep_StopsAtNotice(process, elements, i, done, log, res) ==
    IF Raised(res.exc)
    THEN SubRunFailure(process, done, res.exc, res.h, log \o res.log)
    ELSE IF res.h[res.ret].notices # {}
    THEN SubRunFailure(process, done, Exc("Exception", <<"notice">>),
                       res.h, log \o res.log)
    ELSE SubRunFrom_Stops(process, elements, i + 1, res.h,
                          Append(done, res.ret), log \o res.log)

\* The list comprehension of that variant, from element i on.
SubRunFrom_Stops(process, elements, i, h, done, log) ==
    IF i > Len(elements)
    THEN [exc |-> NoExc, h |-> h, log |-> log, result |-> Result(done, {})]
    ELSE SubRunStep_StopsAtNotice(process, elements, i, done, log,
                                  StageDo(process, h, elements[i]))

RECURSIVE SubRunFrom(_, _, _, _, _, _)
\* Process._sub_run: what follows the call of the selector on element i,
\* whose outcome is res.
SubRunStep(process, elements, i, done, log, res) ==
    IF Raised(res.exc)
    THEN SubRunFailure(process, done, res.exc, res.h, log \o res.log)
    ELSE SubRunFrom(process, elements, i + 1, res.h, Append(done, res.ret),
                    log \o res.log)

\* Process._sub_run, the list comprehension from element i on.
SubRunFrom(process, elements, i, h, done, log) ==
    IF i > Len(elements)
    THEN [exc |-> NoExc, h |-> h, log |-> log, result |-> Result(done, {})]
    ELSE SubRunStep(process, elements, i, done, log,
                    StageDo(process, h, elements[i]))

\* Process._sub_run
Process_sub_run(h, process, elements) ==
    SubRunFrom(process, elements, 1, h, <<>>, <<>>)

\* One call of _sub_run: the process, the elements handed to it, its Result.
SubRunCall(process, elements, result) ==
    [elements |-> elements, id |-> process.id, result |-> result]

\* A variant of AfterSubRun in which the Result gathers the notices of the
\* stages run so far.
AfterSubRun_KeepsNotices(acc, sub, given, r) ==
    [exc |-> r.exc, h |-> r.h, log |-> acc.log \o r.log,
     result |-> Result(r.result.elements,
                       acc.result.notices \cup r.result.notices),
     runs |-> Append(acc.runs, SubRunCall(sub, given, r.result))]

\* The outcome of a run so far (acc) after process sub was run, with
\* outcome r, on the elements given.
AfterSubRun(acc, sub, given, r) ==
    [exc |-> r.exc, h |-> r.h, log |-> acc.log \o r.log,
     result |-> r.result,
     runs |-> Append(acc.runs, SubRunCall(sub, given, r.result))]

RECURSIVE RunFrom_SameElements(_, _, _, _)
\* A variant of RunFrom that hands every stage the elements of the caller.
RunFrom_SameElements(subs, i, elements, acc) ==
    IF i > Len(subs) \/ Raised(acc.exc) THEN acc
    ELSE RunFrom_SameElements(subs, i + 1, elements,
             AfterSubRun(acc, subs[i], elements,
                         Process_sub_run(acc.h, subs[i], elements)))

RECURSIVE RunFrom(_, _, _, _)
\* Process._run, the loop over process.sub_process from the i-th on.
RunFrom(subs, i, elements, acc) ==
    IF i > Len(subs) \/ Raised(acc.exc) THEN acc
    ELSE RunFrom(subs, i + 1, elements,
             AfterSubRun(acc, subs[i], acc.result.elements,
                         Process_sub_run(acc.h, subs[i],
                                         acc.result.elements)))

RECURSIVE Reversed(_)
Reversed(q) == IF q = <<>> THEN <<>> ELSE Append(Reversed(Tail(q)), Head(q))

RECURSIVE WithNested(_)
\* The processes of a list, each followed by those appended to it.
WithNested(subs) ==
    IF subs = <<>> THEN <<>>
    ELSE <<Head(subs)>> \o Head(subs).sub_process \o WithNested(Tail(subs))

\* A variant of Process_run that also runs the processes appended to the
\* appended processes, each after the process it is appended to.
Process_run_Nested(h, process, elements) ==
    RunFrom(WithNested(process.sub_process), 1, elements,
            AfterSubRun([exc |-> NoExc, h |-> h, log |-> <<>>,
                         result |-> ResultEmpty, runs |-> <<>>],
                        process, elements,
                        Process_sub_run(h, process, elements)))

\* A variant of Process_run that runs the appended processes last to first.
Process_run_LastFirst(h, process, elements) ==
    RunFrom(Reversed(process.sub_process), 1, elements,
            AfterSubRun([exc |-> NoExc, h |-> h, log |-> <<>>,
                         result |-> ResultEmpty, runs |-> <<>>],
                        process, elements,
                        Process_sub_run(h, process, elements)))

\* Process._run
Process_run(h, process, elements) ==
    RunFrom(process.sub_process, 1, elements,
            AfterSubRun([exc |-> NoExc, h |-> h, log |-> <<>>,
                         result |-> ResultEmpty, runs |-> <<>>],
                        process, elements,
                        Process_sub_run(h, process, elements)))

\* Process.run
ProcessRun(h, process, elements) == Process_run(h, process, elements)

(***************************************************************************)
(* The inputs of Process.run: batches, selectors, pipelines.               *)
(***************************************************************************)
\* The elements batches are built from (ids are given by position).
BatchElements ==
    { NewElement("Element", Dict(0), tag, "") :
        tag \in {StaticTag(NoTag), StaticTag("a"), StaticTag("b"),
                 DerivedTag("byInput"), DerivedTag("broken")} }
    \cup { NewElement("MyElement", Dict(0), StaticTag("a"), "") }

Batches ==
    UNION { { [i \in 1..n |-> [b[i] EXCEPT !.id = ToString(i)]] :
                b \in [1..n -> BatchElements] } : n \in 0..MaxBatch }

\* The lists of the elements of a batch of n elements: in the order of the
\* batch and in the reverse order.
Orders(n) == {[i \in 1..n |-> i], [i \in 1..n |-> n + 1 - i]}

\* The selectors of the stages: a default chain that rewrites the input, a
\* default chain that copies the input to the output, a chain for tag "a"
\* only, a default chain whose step fails its contract check, and none.
sSet == Selector(<<Chain("Chain", <<Mutable(mSetInput)>>, NoTag, "set")>>,
                 FALSE, "sSet")
sCopy == Selector(<<Chain("Chain", <<Transformer(tIdentity)>>, NoTag,
                          "copy")>>, FALSE, "sCopy")
sOnlyA == Selector(<<Chain("Chain", <<Mutable(mSetInput)>>, "a", "onlyA")>>,
                   FALSE, "sOnlyA")
sFails == Selector(<<Chain("AllChain", <<Transformer(tWrongType)>>, NoTag,
                           "fails")>>, FALSE, "sFails")

StageSelectors == {sSet, sCopy, sOnlyA, sFails, NoSelector}

\* The processes appended to a process; one has a process appended itself.
SubProcesses ==
    { Process(sel, <<>>, "meta", "sub") :
        sel \in {sSet, sCopy, sOnlyA, NoSelector} }
    \cup { Process(sCopy, <<Process(sSet, <<>>, "meta", "inner")>>, "meta",
                   "sub") }

Processes ==
    { Process(sel, subs, "meta", "root") :
        sel \in StageSelectors,
        subs \in SeqsUpTo(SubProcesses, MaxStages - 1) }

(***************************************************************************)
(* The state machine of Process.run: heap holds the batch, last the call   *)
(* of Process.run in progress and its outcome, nops the calls made.        *)
(***************************************************************************)
NoProcess == Process(NoSelector, <<>>, "", "")

NoRun ==
    [exc |-> NoExc, h |-> <<>>, log |-> <<>>, result |-> ResultEmpty,
     runs |-> <<>>]

Call(op, process, elements, pre, res) ==
    [elements |-> elements, op |-> op, pre |-> pre, process |-> process,
     res |-> res]

NoCall == Call("idle", NoProcess, <<>>, <<>>, NoRun)

ProcInit ==
    /\ heap \in Batches
    /\ last = NoCall
    /\ nops = 0

\* result = process.run(elements)
RunProcess ==
    \E process \in Processes, elements \in Orders(Len(heap)) :
        /\ last.op = "idle"
        /\ nops < MaxRuns
        /\ last' = Call("Process.run", process, elements, heap,
                        ProcessRun(heap, process, elements))
        /\ heap' = last'.res.h
        /\ nops' = nops + 1

\* The caller takes the Result; the batch keeps what the run did.
TakeResult ==
    /\ last.op # "idle"
    /\ last' = NoCall
    /\ UNCHANGED <<heap, nops>>

ProcNext == RunProcess \/ TakeResult

ProcSpec == ProcInit /\ [][ProcNext]_vars

(***************************************************************************)
(* Properties of Process.run, stated on the call in progress.              *)
(***************************************************************************)
Run == last.res
Given == last.elements

\* The pipeline: the process and the processes appended to it.
Stages == <<last.process>> \o last.process.sub_process

HasSelectors == \A k \in 1..Len(Stages) : Stages[k].selector # NoSelector

\* What reading the tag of element e gives.
TagOf(e) ==
    IF e.tag.callable THEN TagFnApply(e.tag.v, e)
    ELSE [exc |-> NoExc, val |-> e.tag.v]

RegisteredIn(sel, t) == \E j \in 1..Len(sel.events) : sel.events[j].tag = t

\* The chain selector sel keeps for tag t.
ChainFor(sel, t) ==
    sel.events[CHOOSE j \in 1..Len(sel.events) :
                   /\ sel.events[j].tag = t
                   /\ \A l \in (j + 1)..Len(sel.events) :
                          sel.events[l].tag # t]

\* Element e resolves to a chain of sel: the chain of its tag or the default.
Resolves(sel, e) ==
    /\ ~Raised(TagOf(e).exc)
    /\ RegisteredIn(sel, TagOf(e).val) \/ RegisteredIn(sel, NoTag)

ResolvedTo(sel, e) ==
    IF RegisteredIn(sel, TagOf(e).val) THEN ChainFor(sel, TagOf(e).val)
    ELSE ChainFor(sel, NoTag)

\* C11: Process.run over a batch of elements with constant tags, tag
\* functions that resolve to a registered chain and tag functions that raise
\* does not raise and returns every element; an element whose tag resolves to
\* a registered chain whose steps succeed ends with no notice, an element
\* whose tag function raises ends with at least one notice.
C11_ProcessRunMixedTags ==
    (last.op = "Process.run" /\ HasSelectors) =>
        /\ ~Raised(Run.exc)
        /\ Run.result.elements = Given
        /\ \A r \in 1..Len(last.pre) :
               Raised(TagOf(last.pre[r]).exc) => heap[r].notices # {}
        /\ \A r \in 1..Len(last.pre) :
               ( /\ Len(Stages) = 1
                 /\ last.pre[r].notices = {}
                 /\ Resolves(last.process.selector, last.pre[r])
                 /\ ~Raised(Do(ResolvedTo(last.process.selector, last.pre[r]),
                               last.pre, r, last.process.meta).exc) )
               => heap[r].notices = {}

\* A batch of a constant tag, a tag function that resolves and a tag function
\* that raises, run over a selector with a chain for tag "a" only.
C11_Witness ==
    /\ last.op = "Process.run"
    /\ last.process.selector = sOnlyA
    /\ Len(Stages) = 1
    /\ Len(Given) = 3
    /\ \E r \in 1..3 : last.pre[r].tag = StaticTag("a") /\ heap[r].notices = {}
    /\ \E r \in 1..3 :
           /\ last.pre[r].tag = DerivedTag("byInput")
           /\ heap[r].notices = {}
           /\ heap[r].input = Dict(1)
    /\ \E r \in 1..3 :
           last.pre[r].tag = DerivedTag("broken") /\ heap[r].notices # {}
    /\ Run.result.elements = Given

RECURSIVE Alone(_, _)
\* The batch when element r alone has gone through the first k stages.
Alone(r, k) ==
    IF k = 0 THEN last.pre
    ELSE Do(Stages[k].selector, Alone(r, k - 1), r, Stages[k].meta).h

RECURSIVE StageCalls(_, _)
\* The user functions stage k calls for the first i elements handed in.
StageCalls(k, i) ==
    IF i = 0 THEN <<>>
    ELSE StageCalls(k, i - 1)
             \o Do(Stages[k].selector, Alone(Given[i], k - 1), Given[i],
                   Stages[k].meta).log

RECURSIVE PipelineCalls(_)
\* The user functions the first k stages call, a stage after the other.
PipelineCalls(k) ==
    IF k = 0 THEN <<>>
    ELSE PipelineCalls(k - 1) \o StageCalls(k, Len(Given))

\* C12: Process.run applies the selector of the process to every element and
\* then the selector of each appended process, in the order they were
\* appended; each stage is handed the elements the stage before returned, as
\* that stage left them, and starts when the stage before is done with all
\* elements; the Result returned is that of the last stage.
C12_ProcessRunStages ==
    (last.op = "Process.run" /\ HasSelectors) =>
        /\ Len(Run.runs) = Len(Stages)
        /\ Run.runs[1].elements = Given
        /\ \A k \in 2..Len(Stages) :
               Run.runs[k].elements = Run.runs[k - 1].result.elements
        /\ Len(heap) = Len(last.pre)
        /\ \A r \in 1..Len(last.pre) : heap[r] = Alone(r, Len(Stages))[r]
        /\ Run.log = PipelineCalls(Len(Stages))
        /\ Run.result = Run.runs[Len(Stages)].result

\* Two elements with input {} through a stage that rewrites the input and a
\* stage that copies it to the output.
C12_Witness ==
    /\ last.op = "Process.run"
    /\ last.process.selector = sSet
    /\ Len(Stages) = 2
    /\ Stages[2].selector = sCopy
    /\ Len(Given) = 2
    /\ \A r \in 1..2 :
           /\ last.pre[r].input = Dict(0)
           /\ last.pre[r].tag = StaticTag(NoTag)
           /\ heap[r].input = Dict(1)
           /\ heap[r].output = Dict(1)
           /\ heap[r].notices = {}
    /\ Run.log = <<LogEntry(mSetInput, "meta"), LogEntry(mSetInput, "meta"),
                   LogEntry(tIdentity, "meta"), LogEntry(tIdentity, "meta")>>

\* The first stage without a selector (0: every stage has one).
FirstBroken ==
    IF HasSelectors THEN 0
    ELSE CHOOSE k \in 1..Len(Stages) :
             /\ Stages[k].selector = NoSelector
             /\ \A j \in 1..(k - 1) : Stages[j].selector # NoSelector

\* The notice of the stage that could not apply its selector.
StageFailureNotice ==
    ErrorNotice(<<"Could not run process", Stages[FirstBroken].id,
                  "because of error:",
                  "'NoneType' object has no attribute 'do'">>)

\* C13: when applying the selector of a stage to the batch raises, the Result
\* of that stage has no elements and exactly one ERROR notice, that of the
\* failure, and every stage after it is run with no elements.
C13_StageFailure ==
    (last.op = "Process.run" /\ ~HasSelectors /\ Given # <<>>) =>
        /\ ~Raised(Run.exc)
        /\ Len(Run.runs) = Len(Stages)
        /\ Run.runs[FirstBroken].elements = Given
        /\ Run.runs[FirstBroken].result =
               Result(<<>>, {StageFailureNotice})
        /\ \A j \in (FirstBroken + 1)..Len(Stages) :
               /\ Run.runs[j].elements = <<>>
               /\ Run.runs[j].result.elements = <<>>

\* The second of three stages has no selector: the first has rewritten the
\* elements, the third is run with none.
C13_Witness ==
    /\ last.op = "Process.run"
    /\ Len(Stages) = 3
    /\ FirstBroken = 2
    /\ Stages[1].selector = sSet
    /\ Stages[3].selector = sCopy
    /\ Len(Given) = 2
    /\ \A r \in 1..2 : last.pre[r].input # heap[r].input
    /\ Cardinality(Run.runs[2].result.notices) = 1
    /\ Run.runs[3].elements = <<>>
    /\ Run.result.elements = <<>>

sInner ==
    Selector(<<Chain("AllChain", <<Mutable(mRaises)>>, "a", "inA"),
               Chain("AllChain", <<Transformer(tIdentity)>>, "b", "inB")>>,
             FALSE, "sInner")

\* A selector whose default chain has sInner as its first step.
sNested ==
    Selector(<<Chain("AllChain", <<sInner, Mutable(mSetInput)>>, NoTag,
                     "outer")>>, FALSE, "sNested")

\* A Mutable function that clears the output of the element it is given.
mClearsOutput == Fn("mClearsOutput", 2, "Element", "setOutput", None, "self")
\* A Mutable function that clears the output of the element it is given and
\* returns another element, holding the input and output the first one had.
mDropsOutput == Fn("mDropsOutput", 2, "Element", "setOutput", None, "other")

\* Selectors whose default chain is an AllChain [Mutable, Transformer,
\* Mutable]; every Transformer function returns a value that is not None
\* or raises.
SpecialCase ==
    { Selector(<<Chain("AllChain",
                       <<Mutable(m1), Transformer(t), Mutable(m2)>>, NoTag,
                       "special")>>, TRUE, "sSpecial") :
        m1 \in {mSetInput, mRaises, mInputToList},
        t \in {tIdentity, tWrongType, tRaises},
        m2 \in {mSetOutput, mSubclass, mClearsOutput, mDropsOutput} }

Composed ==
    { Process(sNested, subs, "meta", "root") :
        subs \in SeqsUpTo({Process(sCopy, <<>>, "meta", "sub")}, 1) }

\* Pipelines whose appended processes were built with a meta of their own.
Staged ==
    { Process(sSet, subs, "meta", "root") :
        subs \in SeqsUpTo({ Process(sCopy, <<>>, m, "sub") :
                              m \in {"meta", "other"} }, MaxStages - 1) }

Pipelines ==
    Composed \cup Staged
        \cup {Process(sel, <<>>, "meta", "root") : sel \in SpecialCase}

\* result = process.run(elements), for the composed pipelines
RunPipeline ==
    \E process \in Pipelines, elements \in Orders(Len(heap)) :
        /\ last.op = "idle"
        /\ nops < MaxRuns
        /\ last' = Call("Process.run", process, elements, heap,
                        ProcessRun(heap, process, elements))
        /\ heap' = last'.res.h
        /\ nops' = nops + 1

PipeNext == RunPipeline \/ TakeResult

PipeSpec == ProcInit /\ [][PipeNext]_vars

\* The outcome of the first stage of the run.
StageOne == Process_sub_run(last.pre, last.process, Given)

\* The step of the chain of the first stage that is a Selector.
InnerOf(sel) == sel.events[1].events[1]

\* Element r reaches the inner selector and fails there: no chain matches
\* its tag, or the chain selected raises.
InnerFails(r) ==
    /\ ~Raised(TagOf(last.pre[r]).exc)
    /\ \/ ~Resolves(InnerOf(last.process.selector), last.pre[r])
       \/ Raised(Do(ResolvedTo(InnerOf(last.process.selector), last.pre[r]),
                    last.pre, r, last.process.meta).exc)

\* C23: a Selector that is a step of an AllChain never passes a failure on:
\* when the chain it selects raises or no chain matches, the element gets an
\* ERROR notice, the AllChain goes on with its remaining steps, and
\* Process.run returns that element together with the others, with the
\* output the inner chain has left it (the one it had, when no chain
\* matches).
C23_NestedSelectorNeverRaises ==
    (last.op = "Process.run" /\ last.process.selector = sNested) =>
        /\ ~Raised(Run.exc)
        /\ Run.runs[1].result = Result(Given, {})
        /\ Run.result.elements = Given
        /\ \A r \in 1..Len(last.pre) :
               InnerFails(r) =>
                   /\ \E n \in StageOne.h[r].notices : n.level = "ERROR"
                   /\ StageOne.h[r].input = Dict(1)
                   /\ ~Resolves(InnerOf(last.process.selector),
                                last.pre[r]) =>
                          StageOne.h[r].output = last.pre[r].output
                   /\ LogEntry(mSetInput, last.process.meta)
                          \in {StageOne.log[j] : j \in 1..Len(StageOne.log)}
                   /\ Len(Stages) = 1 => heap[r] = StageOne.h[r]

\* A batch with an element whose inner chain raises, one no inner chain
\* matches and one whose inner chain succeeds; all three are returned.
C23_Witness ==
    /\ last.op = "Process.run"
    /\ last.process.selector = sNested
    /\ Len(Stages) = 1
    /\ Run.result.elements = <<1, 2, 3>>
    /\ last.pre[1].tag = StaticTag("a")
    /\ \E n \in heap[1].notices : n.msg[2] = "AllChain" /\ n.msg[4] = "inA"
    /\ heap[1].input = Dict(1) /\ heap[1].output = None
    /\ last.pre[2].tag = StaticTag(NoTag)
    /\ heap[2].notices =
           {ErrorNotice(<<"Deafult (None) Chain was not registered.">>)}
    /\ heap[2].input = Dict(1)
    /\ last.pre[3].tag = StaticTag("b")
    /\ heap[3].notices = {} /\ heap[3].output = Dict(0)

\* C24: after Process.run with the single stage [Mutable, Transformer,
\* Mutable] whose Transformer never yields None, no element fails silently:
\* every element returned has an output that is not None or carries a
\* notice.
C24_NoSilentFailure ==
    ( /\ last.op = "Process.run"
      /\ last.process.selector \in SpecialCase
      /\ Len(Stages) = 1 )
    => \A i \in 1..Len(Run.result.elements) :
           \/ heap[Run.result.elements[i]].output # None
           \/ heap[Run.result.elements[i]].notices # {}

\* C26: every step of every stage of a run receives the meta of the process
\* on which run was called.
C26_SameMeta ==
    last.op = "Process.run" =>
        \A j \in 1..Len(Run.log) : Run.log[j].meta = last.process.meta

(***************************************************************************)
(* Process._run step by step: one action per call of selector.do, per end  *)
(* of a stage and for the return.  last.res holds the position of the run: *)
(* the stage, the elements handed to it, the next element, the elements    *)
(* the stage has returned so far.                                          *)
(***************************************************************************)
Position(stage, given, i, done, log, result, runs) ==
    [done |-> done, given |-> given, i |-> i, log |-> log, result |-> result,
     runs |-> runs, stage |-> stage]

\* Process._sub_run ends: its Result goes to the next stage.
NextStage(pos, process, result) ==
    Position(pos.stage + 1, result.elements, 1, <<>>, pos.log, result,
             Append(pos.runs, SubRunCall(process, pos.given, result)))

\* A variant of AfterElement that tries the element again when the selector
\* raised.
AfterElement_Retries(pos, process, res) ==
    IF Raised(res.exc)
    THEN [pos EXCEPT !.log = pos.log \o res.log]
    ELSE [pos EXCEPT !.i = pos.i + 1, !.done = Append(pos.done, res.ret),
                     !.log = pos.log \o res.log]

\* Process._sub_run after selector.do on element i, whose outcome is res:
\* the list comprehension goes on, or the except clause ends the stage.
AfterElement(pos, process, res) ==
    IF Raised(res.exc)
    THEN NextStage([pos EXCEPT !.log = pos.log \o res.log], process,
                   Result(<<>>, {SubRunNotice(process, res.exc)}))
    ELSE [pos EXCEPT !.i = pos.i + 1, !.done = Append(pos.done, res.ret),
                     !.log = pos.log \o res.log]

\* The chain of test_will_not_halt: steps annotated with a list literal,
\* alone, under an inner Selector and in nested AllChains.
sInfected ==
    Selector(<<Chain("AllChain",
        <<Chain("AllChain", <<Transformer(tListLiteral)>>, NoTag, ""),
          Selector(<<Chain("AnyChain", <<Transformer(tListLiteral),
                                         Transformer(tListLiteral)>>,
                           "a", "")>>, FALSE, ""),
          Chain("AllChain", <<Transformer(tListLiteral)>>, NoTag, "")>>,
        NoTag, "infected")>>, FALSE, "sInfected")

\* Its inner Selector as the selector of a stage: an AnyChain of two such
\* steps for tag "a", no default chain.
sInfectedAny ==
    Selector(<<Chain("AnyChain", <<Transformer(tListLiteral),
                                   Transformer(tListLiteral)>>, "a", "")>>,
             FALSE, "sInfectedAny")

HaltProcesses ==
    { Process(sel, subs, "meta", "root") :
        sel \in {sInfected, sInfectedAny, sCopy},
        subs \in SeqsUpTo({ Process(s, <<>>, "meta", "sub") :
                              s \in {sCopy, NoSelector} }, MaxStages - 2) }

\* The batch of test_will_not_halt and its prefixes: an element of a tag
\* with a chain of its own, one of a tag without, one without tag.
HaltBatches ==
    { [i \in 1..n |->
          NewElement("Element", Dict(0),
                     StaticTag(<<"a", "b", NoTag>>[((i - 1) % 3) + 1]),
                     ToString(i))] : n \in 0..MaxBatch }

StepInit ==
    /\ heap \in HaltBatches
    /\ last = NoCall
    /\ nops = 0

Running == last.op = "Process._run"

\* process.run(elements) is called.
StartRun ==
    \E process \in HaltProcesses, elements \in Orders(Len(heap)) :
        /\ last.op = "idle"
        /\ nops < MaxRuns
        /\ last' = Call("Process._run", process, elements, heap,
                        Position(1, elements, 1, <<>>, <<>>, ResultEmpty,
                                 <<>>))
        /\ nops' = nops + 1
        /\ UNCHANGED heap

\* One turn of the list comprehension of _sub_run.  The heap is the one the
\* selector leaves, also when it raised.
StepElement ==
    /\ Running
    /\ last.res.stage <= Len(Stages)
    /\ last.res.i <= Len(last.res.given)
    /\ heap' = StageDo(Stages[last.res.stage], heap,
                       last.res.given[last.res.i]).h
    /\ last' = [last EXCEPT !.res =
                   AfterElement(last.res, Stages[last.res.stage],
                                StageDo(Stages[last.res.stage], heap,
                                        last.res.given[last.res.i]))]
    /\ UNCHANGED nops

\* The list comprehension of _sub_run is exhausted.
EndStage ==
    /\ Running
    /\ last.res.stage <= Len(Stages)
    /\ last.res.i > Len(last.res.given)
    /\ last' = [last EXCEPT !.res =
                   NextStage(last.res, Stages[last.res.stage],
                             Result(last.res.done, {}))]
    /\ UNCHANGED <<heap, nops>>

\* Process._run returns the Result of the last stage.
ReturnResult ==
    /\ Running
    /\ last.res.stage > Len(Stages)
    /\ last' = [last EXCEPT !.op = "returned"]
    /\ UNCHANGED <<heap, nops>>

StepNext == StartRun \/ StepElement \/ EndStage \/ ReturnResult

StepSpec == StepInit /\ [][StepNext]_vars

\* The run is one thread of control: it takes a step whenever it can.
StepLive == StepSpec /\ WF_vars(StepNext)

HasReturned == last.op = "returned"

\* C25: Process.run terminates and returns a Result for every finite list of
\* elements and every nesting of chains and selectors, also when steps
\* declare a return annotation that is no class and when elements carry
\* tags no chain is registered for.
C25_RunTerminates == <>HasReturned

\* The steps agree with Process._run taken as a whole.
StepsAgree ==
    HasReturned =>
        /\ heap = ProcessRun(last.pre, last.process, last.elements).h
        /\ last.res.result =
               ProcessRun(last.pre, last.process, last.elements).result
        /\ last.res.runs =
               ProcessRun(last.pre, last.process, last.elements).runs
        /\ last.res.log = ProcessRun(last.pre, last.process, last.elements).log

\* The run of test_will_not_halt has returned: three elements, one of a
\* tag with a chain of its own, one of a tag without, one without tag, each
\* with the notice of the step annotated [dict].
C25_Witness ==
    /\ HasReturned
    /\ last.process.selector = sInfected
    /\ Len(Stages) = 1
    /\ last.res.result = Result(<<1, 2, 3>>, {})
    /\ last.pre[1].tag = StaticTag("a")
    /\ last.pre[2].tag = StaticTag("b")
    /\ last.pre[3].tag = StaticTag(NoTag)
    /\ \A r \in 1..3 :
           \E n \in heap[r].notices :
               "issubclass() arg 1 must be a class" \in
                   {n.msg[j] : j \in 1..Len(n.msg)}
    /\ StepsAgree

(***************************************************************************)
(* utils.distribute, Result.concatenate and Process.run_async.  A worker   *)
(* of the pool is another operating-system process: what crosses to it and *)
(* back is pickled, so it works on a heap of its own and the caller gets   *)
(* new objects.                                                            *)
(***************************************************************************)
MaxWorkers == 3
MaxArgs == 3

\* batches[b] of distribute: the items at the indices i with i % n = b.
Bucket(items, n, b) ==
    [j \in 1..Cardinality({p \in 1..Len(items) : (p - 1) % n = b}) |->
        items[b + 1 + (j - 1) * n]]

\* A variant of Distribute that cuts the list into n runs of neighbours.
Distribute_Chunks(items, n) ==
    SelectSeq([b \in 1..n |->
                  SubSeq(items, ((b - 1) * Len(items)) \div n + 1,
                         (b * Len(items)) \div n)],
              LAMBDA q : Len(q) # 0)

\* A variant of Distribute that returns the empty batches too.
Distribute_KeepsEmpty(items, n) == [b \in 1..n |-> Bucket(items, n, b - 1)]

\* distribute(items, n)
Distribute(items, n) ==
    SelectSeq([b \in 1..n |-> Bucket(items, n, b - 1)],
              LAMBDA q : Len(q) # 0)

\* The objects of a list, each once, in the order of their first occurrence.
RECURSIVE Uniq(_)
Uniq(q) ==
    IF q = <<>> THEN <<>>
    ELSE IF \E j \in 1..(Len(q) - 1) : q[j] = q[Len(q)]
    THEN Uniq(SubSeq(q, 1, Len(q) - 1))
    ELSE Append(Uniq(SubSeq(q, 1, Len(q) - 1)), q[Len(q)])

\* pickle.dumps / loads of a list of elements of heap h: a heap of copies and
\* the list over it; an object listed twice is one copy listed twice.
Pickled(h, refs) ==
    [elements |-> [i \in 1..Len(refs) |->
                      CHOOSE j \in 1..Len(Uniq(refs)) :
                          Uniq(refs)[j] = refs[i]],
     h |-> [j \in 1..Len(Uniq(refs)) |-> h[Uniq(refs)[j]]]]

\* An argument of Result.concatenate: its class and, for a Result, its
\* elements and notices.
Arg(cls, result) == [cls |-> cls, result |-> result]

\* set.update
NoticesUpdate(S, T) == S \cup {n \in T : \A m \in S : ~NoticeEq(n, m)}

NotAResult(cls) ==
    Exc("Exception", <<"Arguments must be of type 'Result', got:", cls>>)

RECURSIVE ConcatenateFrom(_, _, _)
\* The loop of Result.concatenate from argument i on.
ConcatenateFrom(results, i, result) ==
    IF i > Len(results)
    THEN [args |-> results, exc |-> NoExc, result |-> result]
    ELSE IF ~IsSubclass(results[i].cls, "Result")
    THEN [args |-> results, exc |-> NotAResult(results[i].cls),
          result |-> ResultEmpty]
    ELSE ConcatenateFrom(results, i + 1,
             Result(result.elements \o results[i].result.elements,
                    NoticesUpdate(result.notices, results[i].result.notices)))

\* A variant of Concatenate that gathers into its first argument instead of
\* a new Result.
Concatenate_IntoFirst(results) ==
    IF results = <<>> \/ results[1].cls # "Result"
    THEN ConcatenateFrom(results, 1, ResultEmpty)
    ELSE [args |-> [results EXCEPT ![1].result =
                       ConcatenateFrom(results, 2, @).result],
          exc |-> ConcatenateFrom(results, 2, results[1].result).exc,
          result |-> ConcatenateFrom(results, 2, results[1].result).result]

\* Result.concatenate(*results)
Concatenate(results) == ConcatenateFrom(results, 1, ResultEmpty)

\* A worker of the pool: the heap of its own with the copies of its batch,
\* the list over it, and what Process._run has returned there.
Worker(h, elements, result, runs, state) ==
    [elements |-> elements, h |-> h, result |-> result, runs |-> runs,
     state |-> state]

\* The task of worker b arrives: its batch, pickled.
Hired(h, batch) ==
    Worker(Pickled(h, batch).h, Pickled(h, batch).elements, ResultEmpty,
           <<>>, "running")

\* Worker w after its task has returned with outcome r.
WorkerDone(w, r) == Worker(r.h, w.elements, r.result, r.runs, "done")

\* A variant of Worked in which the worker runs the first stage only.
Worked_FirstStage(w, process) ==
    WorkerDone(w, Process_run(w.h, [process EXCEPT !.sub_process = <<>>],
                              w.elements))

\* partial(Process._run, self)(batch) in worker w
Worked(w, process) ==
    WorkerDone(w, Process_run(w.h, process, w.elements))

\* The state of a call of run_async: the batches, the workers of the pool,
\* and where the caller is ("waiting" in get, "returned" or "raised").
Pool(buckets, workers, n, logger, state, exc, logged, result) ==
    [buckets |-> buckets, exc |-> exc, logged |-> logged, logger |-> logger,
     n |-> n, result |-> result, state |-> state, workers |-> workers]

\* The except clause of run_async: log when there is a logger, raise.
AsyncRaised(pool, e) ==
    [pool EXCEPT !.exc = e, !.logged = pool.logger, !.result = ResultEmpty,
                 !.state = "raised"]

\* A variant of Started that returns an empty Result when there is no batch.
Started_EmptyReturns(h, elements, n, logger) ==
    IF Distribute(elements, n) = <<>>
    THEN Pool(<<>>, <<>>, n, logger, "returned", NoExc, FALSE, ResultEmpty)
    ELSE Pool(Distribute(elements, n),
              [b \in 1..Len(Distribute(elements, n)) |->
                  Hired(h, Distribute(elements, n)[b])],
              n, logger, "waiting", NoExc, FALSE, ResultEmpty)

\* run_async up to the call of get: the batches are handed to a pool of as
\* many workers; Pool(0) raises.
Started(h, elements, n, logger) ==
    IF Distribute(elements, n) = <<>>
    THEN AsyncRaised(Pool(<<>>, <<>>, n, logger, "waiting", NoExc, FALSE,
                          ResultEmpty),
                     Exc("ValueError",
                         <<"Number of processes must be at least 1">>))
    ELSE Pool(Distribute(elements, n),
              [b \in 1..Len(Distribute(elements, n)) |->
                  Hired(h, Distribute(elements, n)[b])],
              n, logger, "waiting", NoExc, FALSE, ResultEmpty)

\* The Result of worker w arrives at the caller, whose heap is h: new
\* objects, the Result lists them.
Received(h, w) ==
    Result([i \in 1..Len(w.result.elements) |->
               Len(h) + Pickled(w.h, w.result.elements).elements[i]],
           w.result.notices)

RECURSIVE Gathered(_, _, _, _)
\* The Results of the workers from b on arrive, in the order of the batches.
Gathered(workers, b, h, results) ==
    IF b > Len(workers) THEN [args |-> results, h |-> h]
    ELSE Gathered(workers, b + 1,
                  h \o Pickled(workers[b].h, workers[b].result.elements).h,
                  Append(results, Arg("Result", Received(h, workers[b]))))

Finished(workers) == SelectSeq(workers, LAMBDA w : w.state = "done")

\* A variant of Joined that returns what the workers that finished hold.
Joined_Partial(h, pool) ==
    [h |-> Gathered(Finished(pool.workers), 1, h, <<>>).h,
     pool |-> [pool EXCEPT
                  !.state = "returned",
                  !.result = Concatenate(
                      Gathered(Finished(pool.workers), 1, h,
                               <<>>).args).result]]

RECURSIVE Flat(_)
\* The batches one after the other.
Flat(buckets) ==
    IF buckets = <<>> THEN <<>> ELSE Head(buckets) \o Flat(Tail(buckets))

\* The worker that holds element r of the caller, and its place there.
HeldBy(pool, r) ==
    CHOOSE w \in {<<b, i>> : b \in 1..Len(pool.buckets), i \in 1..MaxBatch} :
        /\ w[2] <= Len(pool.buckets[w[1]])
        /\ pool.buckets[w[1]][w[2]] = r

\* A variant of Joined in which the workers share the memory of the caller:
\* they work on the elements of the caller, which the Result lists.
Joined_SharedMemory(h, pool) ==
    [h |-> [r \in 1..Len(h) |->
               IF \E i \in 1..Len(Flat(pool.buckets)) :
                      Flat(pool.buckets)[i] = r
               THEN pool.workers[HeldBy(pool, r)[1]].h[
                        pool.workers[HeldBy(pool, r)[1]].elements[
                            HeldBy(pool, r)[2]]]
               ELSE h[r]],
     pool |-> [pool EXCEPT !.state = "returned",
                           !.result = Result(Flat(pool.buckets), {})]]

\* get(timeout) has every result, or the error of a worker; the Results
\* are concatenated.
Joined(h, pool) ==
    IF \E b \in 1..Len(pool.workers) : pool.workers[b].state = "failed"
    THEN [h |-> h,
          pool |-> AsyncRaised(pool, Exc("WorkerError", <<"worker failed">>))]
    ELSE [h |-> Gathered(pool.workers, 1, h, <<>>).h,
          pool |-> [pool EXCEPT
                       !.state = "returned",
                       !.result = Concatenate(
                           Gathered(pool.workers, 1, h, <<>>).args).result]]

\* A variant of TimedOut that returns what the workers that finished hold.
TimedOut_Partial(h, pool) == Joined_Partial(h, pool)

\* get(timeout) raises multiprocessing.TimeoutError.
TimedOut(h, pool) ==
    [h |-> h, pool |-> AsyncRaised(pool, Exc("TimeoutError", <<>>))]

(***************************************************************************)
(* The state machine of Process.run_async and Result.concatenate: heap is  *)
(* the heap of the caller, last the call in progress with the workers of   *)
(* its pool, nops the calls made.                                          *)
(***************************************************************************)
\* The batches of the caller: elements with tag "a" and without tag.
AsyncBatches ==
    UNION { { [i \in 1..n |->
                 NewElement("Element", Dict(0), StaticTag(tags[i]),
                            ToString(i))] :
                tags \in [1..n -> {"a", NoTag}] } : n \in 0..MaxBatch }

\* The lists handed to run_async: the batch in its order and reversed, a
\* list that names the first element twice, and the empty list.
AsyncOrders(n) ==
    Orders(n) \cup {<<>>} \cup (IF n = 0 THEN {} ELSE {<<1, 1>>})

\* A default chain of two steps that is not idempotent: the output becomes
\* the input, the input is rewritten.
sTwice == Selector(<<Chain("AllChain", <<Transformer(tIdentity),
                                         Mutable(mSetInput)>>, NoTag,
                           "twice")>>, FALSE, "sTwice")

AsyncProcesses ==
    { Process(sel, subs, "meta", "root") :
        sel \in {sTwice, sOnlyA, sCopy},
        subs \in {<<>>,
                  <<Process(sCopy, <<>>, "meta", "sub")>>,
                  <<Process(NoSelector, <<>>, "meta", "sub")>>,
                  <<Process(sSet, <<>>, "meta", "sub"),
                    Process(sCopy, <<>>, "meta", "sub")>>} }

\* The arguments of Result.concatenate over a heap of n elements: Results
\* of up to two elements, a list and None.
ConcatArgs(n) ==
    { a \in { Arg("Result", Result(<<>>, {})),
              Arg("Result", Result(<<1>>, {Notice(<<"first">>, "ERROR")})),
              Arg("Result", Result(<<1, 1>>,
                                   {Notice(<<"first">>, "ERROR"),
                                    Notice(<<"second">>, "WARNING")})),
              Arg("Result", Result(<<2, 1>>,
                                   {Notice(<<"second">>, "WARNING")})) } :
        \A i \in 1..Len(a.result.elements) : a.result.elements[i] <= n }
    \cup {Arg("list", ResultEmpty), Arg("NoneType", ResultEmpty)}

AsyncInit ==
    /\ heap \in AsyncBatches
    /\ last = NoCall
    /\ nops = 0

Waiting == last.op = "Process.run_async" /\ last.res.state = "waiting"

\* result = await process.run_async(elements, timeout), up to get(timeout)
StartAsync ==
    \E process \in AsyncProcesses, elements \in AsyncOrders(Len(heap)),
       n \in 1..MaxWorkers, logger \in BOOLEAN :
        /\ last.op = "idle"
        /\ nops < MaxRuns
        /\ last' = Call("Process.run_async", process, elements, heap,
                        Started(heap, elements, n, logger))
        /\ nops' = nops + 1
        /\ UNCHANGED heap

\* Worker b returns from Process._run.
WorkerReturns ==
    \E b \in 1..MaxWorkers :
        /\ Waiting
        /\ b <= Len(last.res.workers)
        /\ last.res.workers[b].state = "running"
        /\ last' = [last EXCEPT !.res.workers[b] = Worked(@, last.process)]
        /\ UNCHANGED <<heap, nops>>

\* The task of worker b fails: what it was handed or what it returns cannot
\* be pickled, or the worker runs out of memory.
WorkerFails ==
    \E b \in 1..MaxWorkers :
        /\ Waiting
        /\ b <= Len(last.res.workers)
        /\ last.res.workers[b].state = "running"
        /\ last' = [last EXCEPT !.res.workers[b].state = "failed"]
        /\ UNCHANGED <<heap, nops>>

\* The timeout elapses while a worker is still running.
TimesOut ==
    /\ Waiting
    /\ \E b \in 1..Len(last.res.workers) :
           last.res.workers[b].state = "running"
    /\ last' = [last EXCEPT !.res = TimedOut(heap, last.res).pool]
    /\ heap' = TimedOut(heap, last.res).h
    /\ UNCHANGED nops

\* Every task has ended: get returns or raises.
Joins ==
    /\ Waiting
    /\ \A b \in 1..Len(last.res.workers) :
           last.res.workers[b].state # "running"
    /\ last' = [last EXCEPT !.res = Joined(heap, last.res).pool]
    /\ heap' = Joined(heap, last.res).h
    /\ UNCHANGED nops

\* result = Result.concatenate(*args)
ConcatenateCall ==
    \E args \in SeqsUpTo(ConcatArgs(Len(heap)), MaxArgs) :
        /\ last.op = "idle"
        /\ nops < MaxRuns
        /\ last' = Call("Result.concatenate", NoProcess, args, heap,
                        Concatenate(args))
        /\ nops' = nops + 1
        /\ UNCHANGED heap

\* The caller takes the Result or the error.
AsyncTake ==
    /\ last.op \in {"Process.run_async", "Result.concatenate"}
    /\ ~Waiting
    /\ last' = NoCall
    /\ UNCHANGED <<heap, nops>>

AsyncNext ==
    \/ StartAsync
    \/ WorkerReturns
    \/ WorkerFails
    \/ TimesOut
    \/ Joins
    \/ ConcatenateCall
    \/ AsyncTake

AsyncSpec == AsyncInit /\ [][AsyncNext]_vars

(***************************************************************************)
(* Properties of Result.concatenate, stated on the call in progress: its   *)
(* arguments as they were handed over are last.elements.                   *)
(***************************************************************************)
Concatenates == last.op = "Result.concatenate"

AllResults(args) == \A k \in 1..Len(args) : args[k].cls = "Result"

RECURSIVE Lengths(_, _)
\* How many elements the first k of the arguments hold together.
Lengths(args, k) ==
    IF k = 0 THEN 0
    ELSE Lengths(args, k - 1) + Len(args[k].result.elements)

\* C30: Result.concatenate(r1, ..., rn) returns a Result whose elements are
\* those of the arguments appended in the order of the arguments (as many
\* as the arguments hold together, one listed twice stays listed twice) and
\* whose notices are the union of theirs (equal notices once); it leaves
\* every argument as it was, and raises when an argument is not a Result.
C30_Concatenate ==
    Concatenates =>
        /\ last.res.args = last.elements
        /\ Raised(last.res.exc) <=> ~AllResults(last.elements)
        /\ Raised(last.res.exc) => last.res.exc.kind = "Exception"
        /\ ~Raised(last.res.exc) =>
              /\ Len(last.res.result.elements) =
                     Lengths(last.elements, Len(last.elements))
              /\ \A k \in 1..Len(last.elements) :
                     \A j \in 1..Len(last.elements[k].result.elements) :
                         last.res.result.elements[
                             Lengths(last.elements, k - 1) + j] =
                                 last.elements[k].result.elements[j]
              /\ last.res.result.notices =
                     UNION {last.elements[k].result.notices :
                               k \in 1..Len(last.elements)}

\* Three Results are concatenated: the first lists an element twice, the
\* second and the third each share a notice with the first.
C30_Witness ==
    /\ Concatenates
    /\ Len(last.elements) = 3
    /\ last.elements[1].result.elements = <<1, 1>>
    /\ last.elements[2].result.elements = <<2, 1>>
    /\ last.elements[3].result.elements = <<1>>
    /\ last.res.result.elements = <<1, 1, 2, 1, 1>>
    /\ Cardinality(last.res.result.notices) = 2

\* A list among the arguments: the call raises.
C30_WitnessRaises ==
    /\ Concatenates
    /\ Len(last.elements) = 2
    /\ last.elements[1].cls = "Result"
    /\ last.elements[2].cls = "list"
    /\ Raised(last.res.exc)

(***************************************************************************)
(* Properties of Process.run_async, stated on the call in progress.        *)
(***************************************************************************)
AsyncReturned ==
    last.op = "Process.run_async" /\ last.res.state = "returned"

AsyncHasRaised ==
    last.op = "Process.run_async" /\ last.res.state = "raised"

\* The ids of the elements a list names in heap h.
Ids(h, refs) == [i \in 1..Len(refs) |-> h[refs[i]].id]

\* The place item p of a list of len items has in the batch-by-batch order
\* of n batches filled in turn.
Rank(p, len, n) ==
    Cardinality({q \in 1..len :
                    \/ (q - 1) % n < (p - 1) % n
                    \/ (q - 1) % n = (p - 1) % n /\ q <= p})

\* The list in the order of its batches: the items at the places 1, 1 + n,
\* ... first, those at 2, 2 + n, ... next, and so on.
BatchOrder(items, n) ==
    [k \in 1..Len(items) |->
        items[CHOOSE p \in 1..Len(items) : Rank(p, Len(items), n) = k]]

WorkerStates ==
    {last.res.workers[b].state : b \in 1..Len(last.res.workers)}

\* C28: when the timeout elapses while a worker has not finished, run_async
\* raises a timeout error; when a task of a worker has failed and the others
\* have ended, it raises that error.  It logs the error when the process has
\* a logger, returns no Result and hands the caller none of the elements
\* the workers that finished have returned; it returns a Result only when
\* every worker has finished its task.
C28_AbortsWhole ==
    /\ AsyncHasRaised =>
          /\ Raised(last.res.exc)
          /\ last.res.result = ResultEmpty
          /\ heap = last.pre
          /\ last.res.logged = last.res.logger
          /\ "running" \in WorkerStates <=>
                 last.res.exc.kind = "TimeoutError"
          /\ "running" \notin WorkerStates /\ last.elements # <<>> =>
                 /\ "failed" \in WorkerStates
                 /\ last.res.exc.kind = "WorkerError"
    /\ AsyncReturned =>
          /\ WorkerStates = {"done"}
          /\ ~Raised(last.res.exc)
          /\ ~last.res.logged

\* The timeout elapses when one worker has returned the elements of its
\* batch and another is still running; the process has a logger.
C28_Witness ==
    /\ AsyncHasRaised
    /\ last.res.exc.kind = "TimeoutError"
    /\ last.res.logged
    /\ Len(last.res.workers) = 2
    /\ last.res.workers[1].state = "done"
    /\ Len(last.res.workers[1].result.elements) = 2
    /\ last.res.workers[2].state = "running"

\* The task of one worker fails, the other returns: get raises the error.
C28_WitnessFailure ==
    /\ AsyncHasRaised
    /\ last.res.exc.kind = "WorkerError"
    /\ WorkerStates = {"done", "failed"}
    /\ ~last.res.logged

\* What the claim compares of an element.
Triple(e) == <<e.input, e.output, e.notices>>

\* The multiset of the triples of the elements a list names in heap h.
Triples(h, refs) ==
    [t \in {Triple(h[refs[i]]) : i \in 1..Len(refs)} |->
        Cardinality({i \in 1..Len(refs) : Triple(h[refs[i]]) = t})]

\* The merged Result holds as many elements as the outcome run of a
\* sequential run, and the same triples as often.
AsSequential(run) ==
    /\ Len(last.res.result.elements) = Len(run.result.elements)
    /\ Triples(heap, last.res.result.elements) =
           Triples(run.h, run.result.elements)

\* Worker b has run every stage of the pipeline, in order, each stage on
\* what the stage before returned.
RanPipeline(b) ==
    /\ Len(last.res.workers[b].runs) = Len(Stages)
    /\ \A k \in 1..Len(Stages) :
           /\ last.res.workers[b].runs[k].id = Stages[k].id
           /\ k > 1 => last.res.workers[b].runs[k].elements =
                           last.res.workers[b].runs[k - 1].result.elements

Distinct(refs) ==
    \A i, j \in 1..Len(refs) : i # j => refs[i] # refs[j]

\* C27 as stated: for a list of elements that is not empty, a run_async
\* that completes returns as many elements as were supplied, each worker
\* has run the whole pipeline, and the merged elements have the triples
\* (input, output, notices) of a sequential run, each as often.
C27_AsSequentialRun ==
    AsyncReturned /\ last.elements # <<>> =>
        /\ Len(last.res.result.elements) = Len(last.elements)
        /\ \A b \in 1..Len(last.res.workers) : RanPipeline(b)
        /\ AsSequential(ProcessRun(last.pre, last.process, last.elements))

\* C27: in a run_async that completes each worker has run the whole
\* pipeline on its batch; the merged Result holds as many elements as were
\* supplied unless a stage has failed, and then none; when no element is
\* supplied twice, it holds as many elements as a sequential run returns,
\* with the same triples (input, output, notices), each as often.
C27_AsSequentialRunOfDistinct ==
    AsyncReturned =>
        /\ \A b \in 1..Len(last.res.workers) : RanPipeline(b)
        /\ Len(last.res.result.elements) =
               (IF HasSelectors THEN Len(last.elements) ELSE 0)
        /\ Distinct(last.elements) =>
               AsSequential(ProcessRun(last.pre, last.process,
                                       last.elements))

\* Three elements, two workers, three stages: every merged element has
\* been through the last stage, which copies the input the second stage
\* has set to the output.
C27_Witness ==
    /\ AsyncReturned
    /\ last.res.n = 2
    /\ last.elements = <<3, 2, 1>>
    /\ Len(Stages) = 3
    /\ Len(last.res.result.elements) = 3
    /\ \A i \in 1..3 :
           heap[last.res.result.elements[i]].output = Dict(1)

(***************************************************************************)
(* Notice sets: the notices of one element, to which notices with messages *)
(* made of the characters levels end with are added one after the other.   *)
(***************************************************************************)
\* How many notices are added in a behaviour at most.
MaxNotices == 3

\* The messages: texts of up to two characters, among them the characters
\* the texts of the levels end with.
NoticeMsgs == SeqsUpTo({"x", "O", "R"}, 2)

NoticeInit ==
    /\ heap = <<NewElement("Element", Dict(0), StaticTag(NoTag), "1")>>
    /\ last = NoCall
    /\ nops = 0

\* element.notices.add(Notice(msg, level))
AddNotice ==
    \E msg \in NoticeMsgs, level \in Levels :
        /\ nops < MaxNotices
        /\ heap' = [heap EXCEPT ![1].notices =
                       NoticesAdd(@, Notice(msg, level))]
        /\ last' = Call("notices.add", NoProcess, <<1>>, heap,
                        Notice(msg, level))
        /\ nops' = nops + 1

NoticeNext == AddNotice

NoticeSpec == NoticeInit /\ [][NoticeNext]_vars

Adds == last.op = "notices.add"

SameNotice(n, m) == n.msg = m.msg /\ n.level = m.level

\* C31: two notices are equal, and count once in a set of notices, exactly
\* when they have the same message and the same level: adding a notice to
\* the notices of an element leaves the set as it is when it holds a notice
\* of that message and level, and makes it one notice larger otherwise.
C31_NoticeEquality ==
    Adds =>
        /\ \A m \in last.pre[1].notices :
               NoticeEq(last.res, m) <=> SameNotice(last.res, m)
        /\ (\E m \in last.pre[1].notices : SameNotice(last.res, m)) =>
               heap[1].notices = last.pre[1].notices
        /\ ~(\E m \in last.pre[1].notices : SameNotice(last.res, m)) =>
               /\ heap[1].notices = last.pre[1].notices \cup {last.res}
               /\ Cardinality(heap[1].notices) =
                      Cardinality(last.pre[1].notices) + 1
        /\ \A n, m \in heap[1].notices : NoticeEq(n, m) => n = m

\* A notice is added to a set that holds one of the same message and
\* another level, and one of the same level and another message: three
\* notices.  Then it is added again: still three.
C31_Witness ==
    /\ Adds
    /\ last.res = Notice(<<"x">>, "ERROR")
    /\ heap[1].notices = {Notice(<<"x">>, "ERROR"), Notice(<<"x">>, "INFO"),
                          Notice(<<"x", "R">>, "ERROR")}

C31_WitnessAgain ==
    /\ Adds
    /\ last.res \in last.pre[1].notices
    /\ heap[1].notices = last.pre[1].notices

(***************************************************************************)
(* The notices of an element over an operation of the engine.              *)
(***************************************************************************)
EngineOps ==
    {"Transformer.do", "Mutable.do", "Verifier.do", "AllChain.do",
     "AnyChain.do", "Selector.do", "Process.run"}

\* C32: no operation of the engine removes a notice: the notices an element
\* has before Transformer.do, Mutable.do, Verifier.do, AllChain.do,
\* AnyChain.do, Selector.do or Process.run are among those it has after it,
\* whether the operation returns or raises.
C32_NoticesAppendOnly ==
    last.op \in EngineOps =>
        \A r \in 1..Len(last.pre) :
            /\ r <= Len(heap)
            /\ last.pre[r].notices \subseteq heap[r].notices

\* An AllChain raises on an element that has a notice, after one of its
\* steps has given the element another.
C32_Witness ==
    /\ last.op = "AllChain.do"
    /\ Raised(last.res.exc)
    /\ last.pre[1].notices # {}
    /\ last.pre[1].notices # heap[1].notices
    /\ last.pre[1].notices \subseteq heap[1].notices

\* An AnyChain none of whose steps succeeds returns an element that had a
\* notice, with the notices of its steps added.
C32_WitnessReturns ==
    /\ last.op = "AnyChain.do"
    /\ ~Raised(last.res.exc)
    /\ last.pre[1].notices # {}
    /\ Cardinality(heap[1].notices) >= Cardinality(last.pre[1].notices) + 2

(***************************************************************************)
(* utils.distribute on lists of items, some of which hold an item twice.   *)
(***************************************************************************)
\* How many items a list handed to distribute holds at most.
MaxItems == 9
\* The largest n handed to distribute.
MaxBuckets == 5

\* The lists: every list of up to 4 items over two values, and the lists
\* "1", "2", ... of 5 items and more.
ItemLists ==
    SeqsUpTo({"p", "q"}, 4)
    \cup {[i \in 1..len |-> ToString(i)] : len \in 5..MaxItems}

DistInit ==
    /\ heap = <<>>
    /\ last = NoCall
    /\ nops = 0

\* batches = distribute(items, n)
DistributeCall ==
    \E items \in ItemLists, n \in 1..MaxBuckets :
        /\ last.op = "idle"
        /\ nops < MaxRuns
        /\ last' = Call("distribute", NoProcess, items, heap,
                        [buckets |-> Distribute(items, n), n |-> n])
        /\ nops' = nops + 1
        /\ UNCHANGED heap

DistNext == DistributeCall \/ TakeResult

DistSpec == DistInit /\ [][DistNext]_vars

Distributes == last.op = "distribute"

Sizes == [b \in 1..Len(last.res.buckets) |-> Len(last.res.buckets[b])]

RECURSIVE SumTo(_, _)
SumTo(sizes, k) == IF k = 0 THEN 0 ELSE SumTo(sizes, k - 1) + sizes[k]

\* C33: distribute(items, n) with n >= 1 returns min(n, len(items))
\* batches, none empty; the item at index i (from 0) is in batch i mod n at
\* place i div n, so the batches hold every item once and keep the order of
\* the list; their sizes differ by one at most.
C33_Distribute ==
    Distributes =>
        /\ Len(last.res.buckets) =
               (IF last.res.n < Len(last.elements)
                THEN last.res.n ELSE Len(last.elements))
        /\ \A b \in 1..Len(last.res.buckets) : Sizes[b] > 0
        /\ SumTo(Sizes, Len(Sizes)) = Len(last.elements)
        /\ \A i \in 0..(Len(last.elements) - 1) :
               /\ (i % last.res.n) + 1 <= Len(last.res.buckets)
               /\ (i \div last.res.n) + 1 <= Sizes[(i % last.res.n) + 1]
               /\ last.res.buckets[(i % last.res.n) + 1]
                                  [(i \div last.res.n) + 1] =
                      last.elements[i + 1]
        /\ \A b, c \in 1..Len(Sizes) :
               Sizes[b] - Sizes[c] \in {-1, 0, 1}

\* Nine items, n = 4: batches of 3, 2, 2 and 2 items, the first with the
\* first, the fifth and the ninth item.
C33_Witness ==
    /\ Distributes
    /\ Len(last.elements) = 9
    /\ last.res.n = 4
    /\ Sizes = <<3, 2, 2, 2>>
    /\ last.res.buckets[1] = <<"1", "5", "9">>

\* Fewer items than batches: as many batches as items.
C33_WitnessFewer ==
    /\ Distributes
    /\ Len(last.elements) = 2
    /\ last.res.n = 5
    /\ Sizes = <<1, 1>>

(***************************************************************************)
(* What a Transformer that fails the check of its return type leaves.      *)
(***************************************************************************)
\* What the function of the first step of the chain of the call returns on
\* the element of the call.
FirstResult ==
    TFnApply(last.ev.events[1].fn, Before.input, Before.output, last.meta).val

\* The first step of the chain of the call is a Transformer that fails the
\* check of its return type, the second one hands back the output it gets.
FailsThenPrevious ==
    /\ last.op = "AnyChain.do"
    /\ Len(last.ev.events) = 2
    /\ last.ev.events[1].k = "Transformer"
    /\ last.ev.events[1].fn.act \notin {"raise", "raiseVRE"}
    /\ Raised(VerifyFnOutput(last.ev.events[1].fn.ann, FirstResult.ty))
    /\ last.ev.events[2] = Transformer(tPrevious)
    /\ IsSubclass(Before.cls, "Element")

\* C34: when Transformer.do raises the error of the check of the return
\* type, the output of the element is the value the function produced, of
\* a type the declared one does not allow; a step of an AnyChain that
\* follows is handed that value as the output so far, and succeeds or
\* fails on it.
C34_NoRollback ==
    /\ (last.op = "Transformer.do" /\ CheckRaised) =>
          /\ After.output = TransformerResult
          /\ Raised(VerifyFnOutput(FnOf.ann, After.output.ty))
    /\ FailsThenPrevious =>
          /\ After.output = FirstResult
          /\ ~Raised(Outcome.exc)
          /\ IF Raised(VerifyFnOutput(tPrevious.ann, FirstResult.ty))
             THEN \E n \in After.notices :
                      n.msg[1] = "Error when computing AnyChain"
             ELSE After.notices = Before.notices

\* A Transformer declared to return a list returns a dict on an element
\* that has no output: it raises and the dict is the output.
C34_Witness ==
    /\ last.op = "Transformer.do"
    /\ CheckRaised
    /\ FnOf = tWrongType
    /\ Before.output = None
    /\ After.output = Dict(1)

\* The AnyChain of that Transformer and of one that hands back the output
\* so far: the second step succeeds with the dict the first has left.
C34_WitnessAnyChain ==
    /\ FailsThenPrevious
    /\ Before.output = None
    /\ After.output = Dict(1)
    /\ ~Raised(Outcome.exc)
    /\ After.notices = Before.notices

(***************************************************************************)
(* What Mutable.do compares and what it returns.                           *)
(***************************************************************************)
\* The call of Mutable.do reaches the comparison of the types: the function
\* returns an element of a class its annotation allows.
ComparisonReached ==
    /\ last.op = "Mutable.do"
    /\ IsSubclass(Before.cls, "Element")
    /\ ~FnRaises
    /\ ReturnsElement
    /\ ~Raised(VerifyFnOutput(FnOf.ann, ReturnedElement.cls))

C36_LastStageNotices ==
    (last.op = "Process.run" /\ Len(Stages) > 1) =>
        /\ Len(Run.runs) = Len(Stages)
        /\ Run.result.notices = Run.runs[Len(Stages)].result.notices
        /\ \A k \in 1..(Len(Stages) - 1) :
               Run.runs[k].result.notices # {} =>
                   /\ Run.result = ResultEmpty
                   /\ \A j \in (k + 1)..Len(Stages) :
                          /\ Run.runs[j].elements = <<>>
                          /\ Run.runs[j].result = ResultEmpty

\* The first of three stages has no selector and is handed two elements: it
\* leaves a notice, the Result has none.
C36_Witness ==
    /\ last.op = "Process.run"
    /\ Len(Stages) = 3
    /\ Len(Given) = 2
    /\ Stages[1].selector = NoSelector
    /\ Cardinality(Run.runs[1].result.notices) = 1
    /\ Run.result = ResultEmpty

\* The last of two stages fails: its notice is in the Result.
C36_WitnessLast ==
    /\ last.op = "Process.run"
    /\ Len(Stages) = 2
    /\ Run.runs[1].result.notices = {}
    /\ Cardinality(Run.result.notices) = 1

(***************************************************************************)
(* The processes appended to an appended process.                          *)
(***************************************************************************)
\* The process with nothing appended to the processes appended to it.
Stripped(process) ==
    [process EXCEPT !.sub_process =
        [k \in 1..Len(process.sub_process) |->
            [process.sub_process[k] EXCEPT !.sub_process = <<>>]]]

\* The run of the call is the run r of another process on the elements and
\* the heap of the call.
SameRun(r) == Run = r

\* C37: Process.run runs the process and the processes appended to it, in
\* order, and no process appended to one of those: the run makes one call
\* of _sub_run per process appended directly (and one for the process
\* itself), and its outcome is what it is with nothing appended to the
\* appended processes.
C37_DirectSubprocessesOnly ==
    last.op = "Process.run" =>
        /\ Len(Run.runs) = 1 + Len(last.process.sub_process)
        /\ \A k \in 1..Len(Run.runs) :
               /\ Run.runs[k].id = Stages[k].id
               /\ Run.runs[k].id # "inner"
        /\ SameRun(ProcessRun(last.pre, Stripped(last.process), Given))

\* A process that copies the input to the output, with a process appended
\* to which a process that rewrites the input is appended: two calls of
\* _sub_run, the input is not rewritten.
C37_Witness ==
    /\ last.op = "Process.run"
    /\ last.process.selector = sCopy
    /\ Len(last.process.sub_process) = 1
    /\ Len(last.process.sub_process[1].sub_process) = 1
    /\ last.process.sub_process[1].sub_process[1].selector = sSet
    /\ Len(Given) = 2
    /\ Len(Run.runs) = 2
    /\ \A i \in 1..2 :
           /\ heap[Run.result.elements[i]].input = Dict(0)
           /\ heap[Run.result.elements[i]].output = Dict(0)

(***************************************************************************)
(* run_async and run on no element.                                        *)
(***************************************************************************)
\* The run r of Process.run returns the empty Result and leaves heap h.
ReturnsEmpty(r, h) ==
    /\ ~Raised(r.exc)
    /\ r.result = ResultEmpty
    /\ r.h = h

\* C38: run_async on an empty list of elements raises (distribute returns
\* no batch and a pool of no worker is asked for; the error is logged when
\* the process has a logger) and returns no Result, whereas run on the
\* empty list returns a Result with no element and no notice; run_async on
\* a list that is not empty does not raise that error.
C38_EmptyCollection ==
    last.op = "Process.run_async" =>
        IF last.elements = <<>>
        THEN /\ AsyncHasRaised
             /\ last.res.exc.kind = "ValueError"
             /\ last.res.workers = <<>>
             /\ last.res.logged = last.res.logger
             /\ heap = last.pre
             /\ ReturnsEmpty(ProcessRun(last.pre, last.process, <<>>),
                             last.pre)
        ELSE /\ last.res.exc.kind # "ValueError"
             /\ last.res.workers # <<>>

\* run_async of a process with a logger and two stages, the second without
\* selector, on the empty list, the caller holding two elements.
C38_Witness ==
    /\ AsyncHasRaised
    /\ last.elements = <<>>
    /\ Len(last.pre) = 2
    /\ last.res.logged
    /\ Len(Stages) = 2
    /\ Stages[2].selector = NoSelector
    /\ last.res.exc.kind = "ValueError"

(***************************************************************************)
(* The elements of the caller over run_async.                              *)
(***************************************************************************)
\* C39: run_async changes no element of the caller: while it runs, after it
\* has returned and after it has raised, every element the caller had has
\* the input, the output and the notices it had before the call; the
\* elements of the merged Result are objects the caller did not have.
C39_CallerElementsUntouched ==
    last.op = "Process.run_async" =>
        /\ Len(heap) >= Len(last.pre)
        /\ \A r \in 1..Len(last.pre) : heap[r] = last.pre[r]
        /\ AsyncReturned =>
               \A i \in 1..Len(last.res.result.elements) :
                   last.res.result.elements[i] > Len(last.pre)
        /\ ~AsyncReturned => heap = last.pre

\* A pipeline that rewrites the input and copies it to the output returns
\* two elements that have the output; the two supplied still have none.
C39_Witness ==
    /\ AsyncReturned
    /\ Len(last.elements) = 2
    /\ Distinct(last.elements)
    /\ Len(last.res.result.elements) = 2
    /\ \A i \in 1..2 :
           /\ heap[last.res.result.elements[i]].output = Dict(1)
           /\ heap[last.elements[i]].output = None
           /\ heap[last.elements[i]].input = Dict(0)

\* The timeout elapses after a worker has given its copy an output.
C39_WitnessRaises ==
    /\ AsyncHasRaised
    /\ last.res.exc.kind = "TimeoutError"
    /\ last.res.workers[1].state = "done"
    /\ last.res.workers[1].h[1].output = Dict(1)
    /\ heap[last.elements[1]].output = None

(***************************************************************************)
(* An element run alone and run in a batch.                                *)
(***************************************************************************)
\* Element r after the run alone has the output and the notices it has now.
SameAlone(alone, r) ==
    /\ alone.h[r].output = heap[r].output
    /\ alone.h[r].notices = heap[r].notices
    /\ alone.h[r].input = heap[r].input

\* C40: what Process.run leaves in an element depends on the element and
\* the pipeline only: the run of the batch leaves every element of the
\* batch with the output and the notices that the run of that element
\* alone, from the same state, leaves it with.
C40_ElementsIndependent ==
    last.op = "Process.run" =>
        \A i \in 1..Len(last.elements) :
            SameAlone(ProcessRun(last.pre, last.process,
                                 <<last.elements[i]>>),
                      last.elements[i])

\* A pipeline of two stages or more has run a batch in which an element
\* that ends with a notice comes before one that ends with none and with
\* the output the pipeline gives it.
C40_Witness ==
    /\ last.op = "Process.run"
    /\ last.process.sub_process # <<>>
    /\ Len(last.res.result.elements) = Len(last.elements)
    /\ \E i, j \in 1..Len(last.elements) :
           /\ i < j
           /\ last.pre[last.elements[i]].notices = {}
           /\ heap[last.elements[i]].notices # {}
           /\ heap[last.elements[j]].notices = {}
           /\ last.pre[last.elements[j]].output = None
           /\ heap[last.elements[j]].output # None

\* A stage without selector after the first: the elements keep what the
\* first stage did, in the batch as alone.
C40_WitnessFailingStage ==
    /\ last.op = "Process.run"
    /\ Len(last.elements) >= 2
    /\ last.res.result.elements = <<>>
    /\ last.res.result.notices # {}
    /\ \E i \in 1..Len(last.elements) :
           heap[last.elements[i]] # last.pre[last.elements[i]]

====
